---- MODULE Spec2Model ----
(***************************************************************************)
(* Model of the Strava synchronisation service (StravaService), its local  *)
(* store (AthleteInsightDB), the bulk stream backfill of the Activities    *)
(* component and the logout, export and import of the Settings component.  *)
(*                                                                         *)
(* Execution model.  The program is single-threaded JavaScript: an async   *)
(* function runs without interruption until it waits for real I/O (a      *)
(* fetch, an IndexedDB request, a timer).  A task's pc names the I/O it is *)
(* waiting for; one action is the completion of that I/O together with the *)
(* code that runs until the next I/O is issued.  An await on a value that  *)
(* is already available (getSettings with this.settings cached) is not a   *)
(* suspension point.                                                       *)
(*                                                                         *)
(* Time is in milliseconds from a small epoch, in steps of one minute.     *)
(***************************************************************************)
EXTENDS Integers, FiniteSets, Sequences, TLC

\* ---------------------------------------------------------------- bounds
MaxNow == 1            \* the clock runs from 0 to MaxNow minutes
MaxIssued == 2         \* token pairs the provider issues in one run
NumIds == 2            \* activity identifiers 1..NumIds
MaxCodes == 1          \* authorization codes the provider accepts in one run
MaxRate == 230         \* heart-rate samples are drawn from -1..MaxRate
MaxLen == 2            \* samples in a heart-rate stream
PerPage == 1           \* activities in a page of the list (30 in the program)
MaxMore == 2           \* clicks on "Load More Activities" in one run

\* ------------------------------------------------------ program constants
Undefined == 0                       \* an optional field that is not set
BufferMs == 5 * 60 * 1000            \* ensureValidToken's 5 minute buffer
MinuteMs == 60 * 1000
Null == [null |-> TRUE]              \* JavaScript null / undefined object

\* The concurrent callers of the service.  The activity page starts its detail
\* load and its cohort comparison without awaiting either; the bulk backfill of
\* the activities list runs on after the list is left.
PageCallers == {"loadActivityDetail", "loadComparisonData"}
BulkTask == "fetchAllStreamData"
ListTask == "loadActivities"
OAuthTask == "handleOAuthCallback"
\* the callers of getAthlete and of the athlete updates: the activity page's
\* loadAthlete and the Settings page's save handlers
AthleteLoader == "loadAthlete"
AthleteSaver == "handleSaveAthlete"
AthleteTasks == {AthleteLoader, AthleteSaver}
MoreTask == "loadMoreActivities"
Tasks == PageCallers \cup {BulkTask, ListTask, OAuthTask, MoreTask} \cup AthleteTasks
Ids == 1..NumIds
\* the activity shown by the activity page (route /activity/:id); identifiers
\* are interchangeable, so the first one stands for any
PageId == CHOOSE id \in Ids : \A other \in Ids : id <= other

\* expires_at values (epoch seconds) the token endpoint answers with: inside
\* the buffer from the start, and outside it until the first minute has passed
ExpiresAtSecs == {2 * 60, 5 * 60 + 30}

VARIABLES
  now,          \* Date.now()
  settingsTbl,  \* db.settings: set of rows
  nextId,       \* db.settings auto-increment key (++id)
  activitiesTbl,\* db.activities
  detailsTbl,   \* db.activityDetails
  athleteTbl,   \* db.athlete
  mem,          \* StravaService.settings, the in-memory copy
  issued,       \* provider: number of token pairs issued; the pair issued
                \* last is the only one whose refresh token is still valid
  task,         \* task -> locals of the async call it runs
  ui,           \* Activities component state
  bulk,         \* locals of fetchAllStreamData
  log,          \* history: events of the bulk backfill, in order
  failed,       \* history: items of the bulk list whose getActivityDetail raised
  staleSent,    \* history: a refresh request carried a replaced refresh token
  settingsPage, \* the operation the Settings page runs (logout, import)
  detailPage    \* ActivityDetail component: what it holds and what it computed

vars == <<now, settingsTbl, nextId, activitiesTbl, detailsTbl, athleteTbl, mem,
          issued, task, ui, bulk, log, failed, staleSent, settingsPage, detailPage>>

dbVars == <<settingsTbl, nextId, activitiesTbl, detailsTbl, athleteTbl>>
uiVars == <<ui, bulk, log, failed>>

\* ---------------------------------------------------------------- helpers
\* obj.f for an optional field: undefined when the field is not there
Get(r, f) == IF f \in DOMAIN r THEN r[f] ELSE Undefined

\* { ...a, ...b }
Spread(a, b) == [f \in DOMAIN a \cup DOMAIN b |-> IF f \in DOMAIN b THEN b[f] ELSE a[f]]

\* table.toCollection().first(): the row with the lowest primary key
First(tbl) == IF tbl = {} THEN Null
              ELSE CHOOSE r \in tbl : \A q \in tbl : r.id <= q.id

\* table.get(key)
TableGet(tbl, key) == IF \E r \in tbl : r.id = key
                      THEN CHOOSE r \in tbl : r.id = key ELSE Null

\* table.put(row): insert or replace by primary key
TablePut(tbl, row) == {r \in tbl : r.id # row.id} \cup {row}

\* table.update(key, changes): no row with that key, nothing happens
TableUpdate(tbl, key, changes) ==
  {IF r.id = key THEN Spread(r, changes) ELSE r : r \in tbl}

EvtNone == [hadExpiry |-> FALSE, near |-> FALSE, far |-> FALSE, lacking |-> FALSE,
            stored |-> Undefined,
            refreshed |-> FALSE, issuedTok |-> Undefined, returned |-> Undefined,
            requests |-> 0]

IdleTask == [pc |-> "idle", op |-> "none", phase |-> "detail", id |-> Undefined,
             settings |-> Null, existing |-> Null, partial |-> Null,
             detail |-> Null, page |-> 0, perPage |-> 0, activities |-> <<>>, k |-> 0,
             result |-> "none", ret |-> Null, fromCache |-> FALSE,
             cachedAtStart |-> "none",
             nDetailReq |-> 0, nStreamReq |-> 0, nRefreshReq |-> 0, nListReq |-> 0,
             wrote |-> FALSE,
             authFailed |-> "none", detailOutcome |-> "none", streamOutcome |-> "none",
             listOutcome |-> "none",
             evt |-> EvtNone]

\* ------------------------------------------------------------ the service
\* getActivityDetail's exits
\* the locals of a finished call are gone; what it did is kept as history
Finished(l) ==
  [l EXCEPT !.pc = "done", !.phase = "detail", !.settings = Null, !.existing = Null,
            !.partial = Null, !.detail = Null, !.activities = <<>>, !.k = 0,
            !.evt = EvtNone]

Return(l, value, cached) ==
  [Finished(l) EXCEPT !.result = "returned", !.ret = value, !.fromCache = cached]

Raise(l) == [Finished(l) EXCEPT !.result = "raised"]

\* getAthlete returns value to its caller: that is the end for a getAthlete
\* call, and for an update that got no athlete; otherwise the update's
\* db.athlete.update follows
AthleteReturn(l, value, cached) ==
  IF l.op = "getAthlete" \/ value = Null
  THEN Return(l, value, cached)
  ELSE [l EXCEPT !.pc = "athlete_update", !.ret = value, !.fromCache = cached,
                 !.settings = Null, !.existing = Null, !.partial = Null,
                 !.evt = EvtNone]

\* An exception inside makeAuthenticatedRequest: getActivityDetail's own request
\* propagates it, getActivityStreams' request is inside the try/catch, after
\* which the detail is stored without streams; getAthlete's catch returns null.
ThrowAlways(l) == Raise(l)
Throw(l) ==
  IF l.phase = "streams"
  THEN [l EXCEPT !.pc = "detail_put", !.settings = Null, !.existing = Null,
                 !.partial = Null, !.evt = EvtNone]
  ELSE IF l.phase = "athlete"
  THEN AthleteReturn(l, Null, FALSE)
  ELSE Raise(l)

\* makeAuthenticatedRequest after ensureValidToken returned token: the fetch is sent
SendRequest(l, token) ==
  LET l1 == [l EXCEPT !.settings = Null, !.existing = Null, !.partial = Null,
                      !.evt.returned = token]
  IN IF l.phase = "detail"
     THEN [l1 EXCEPT !.pc = "detail_fetch", !.nDetailReq = @ + 1]
     ELSE IF l.phase = "list"
     THEN [l1 EXCEPT !.pc = "list_fetch", !.nListReq = @ + 1]
     ELSE IF l.phase = "athlete"
     THEN [l1 EXCEPT !.pc = "athlete_fetch"]
     ELSE [l1 EXCEPT !.pc = "stream_fetch", !.nStreamReq = @ + 1]

\* !settings?.refreshToken || !settings.clientId || !settings.clientSecret
MissingCredentials(s) ==
  Get(s, "refreshToken") = Undefined \/ Get(s, "clientId") = Undefined
  \/ Get(s, "clientSecret") = Undefined

\* refreshAccessToken up to its fetch; s is what getSettings returned
RefreshUnchecked(l, s) ==
  [l EXCEPT !.pc = "refresh_fetch", !.settings = s, !.evt.requests = @ + 1,
            !.nRefreshReq = @ + 1]
refreshAccessToken(l, s) ==
  IF MissingCredentials(s)
  THEN Throw([l EXCEPT !.authFailed = l.phase])
  ELSE [l EXCEPT !.pc = "refresh_fetch", !.settings = s, !.evt.requests = @ + 1,
                 !.nRefreshReq = @ + 1]

\* settings.expiresAt && settings.expiresAt < Date.now() + 5 * 60 * 1000
TokenExpiredNoBuffer(s, t) == Get(s, "expiresAt") # Undefined /\ Get(s, "expiresAt") < t
TokenExpired(s, t) ==
  Get(s, "expiresAt") # Undefined /\ Get(s, "expiresAt") < t + BufferMs

\* ensureValidToken after getSettings returned s
CheckToken(l, s) ==
  IF s = Null \/ Get(s, "accessToken") = Undefined
  THEN Throw([l EXCEPT !.authFailed = l.phase])
  ELSE LET e == Get(s, "expiresAt")
           l1 == [l EXCEPT !.evt = [EvtNone EXCEPT
                     !.hadExpiry = (e # Undefined),
                     !.near = (e # Undefined /\ e - now < 5 * MinuteMs),
                     !.far = (e # Undefined /\ e - now > 5 * MinuteMs),
                     !.lacking = MissingCredentials(s),
                     !.stored = s.accessToken]]
       IN IF TokenExpired(s, now)
          THEN refreshAccessToken(l1, s)
          ELSE SendRequest(l1, s.accessToken)

\* ensureValidToken from its start: getSettings reads the table only when the
\* in-memory copy is empty
ensureValidToken(l) ==
  IF mem = Null THEN [l EXCEPT !.pc = "evt_read", !.evt = EvtNone]
  ELSE CheckToken(l, mem)

\* makeAuthenticatedRequest for getActivityDetail (phase "detail"),
\* getActivityStreams (phase "streams") or getActivities (phase "list")
makeAuthenticatedRequest(l, phase) == ensureValidToken([l EXCEPT !.phase = phase])

\* getActivityStreams' transform of the "keyed by type" envelope: every key of
\* the response whose entry has a data payload is kept
TransformStreams(envelope) == {k \in DOMAIN envelope : envelope[k].hasData}

\* answers of GET /activities/{id}/streams
StreamEnvelopes ==
  { [time |-> [hasData |-> TRUE], heartrate |-> [hasData |-> TRUE]],
    [time |-> [hasData |-> TRUE], heartrate |-> [hasData |-> FALSE]] }

\* the body of GET /activities/{id}: the activity, without streams
RemoteDetail(id) == [id |-> id, name |-> id]

\* cachedDetail && cachedDetail.streams
IgnoresStreams(cached) == cached # Null
NeverComplete(cached) == FALSE
IsComplete(cached) == cached # Null /\ "streams" \in DOMAIN cached

CacheClass(cached) == IF cached = Null THEN "absent"
                      ELSE IF "streams" \in DOMAIN cached THEN "complete" ELSE "partial"

\* saveSettings up to its first I/O: getSettings answers from memory when it can
saveSettings(l, partial) ==
  IF mem # Null
  THEN [l EXCEPT !.pc = "save_write", !.partial = partial, !.existing = mem]
  ELSE [l EXCEPT !.pc = "save_read", !.partial = partial]

\* ------------------------------------------- fetchAllStreamData's loop
\* blocked: a trigger found this loop running and returned
NoBulk == [list |-> <<>>, i |-> 0, successCount |-> 0, errorCount |-> 0, alert |-> Null,
           blocked |-> FALSE]

\* setStreamProgress({ current: i + 1, total })
ProgressOffByOne(i) == i
ProgressCurrent(i) == i + 1

\* the catch of the loop body counts the error; the for loop goes on with i + 1
AbortAfterError(i, n) == n
IndexAfterError(i, n) == i + 1

\* The loop from its test "i < activitiesToProcess.length" with locals b: either
\* the next item is reported and its getActivityDetail is called, or the loop
\* is over, the counts are shown and the finally block resets the progress.
Iterate(t, b, lg, u) ==
  IF b.i < Len(b.list)
  THEN /\ ui' = [u EXCEPT !.streamProgress =
                     [current |-> ProgressCurrent(b.i), total |-> Len(b.list)]]
       /\ log' = lg \o << <<"progress", ProgressCurrent(b.i)>>, <<"start", b.list[b.i + 1]>> >>
       /\ task' = [task EXCEPT ![t] = [IdleTask EXCEPT !.pc = "detail_get", !.op = "bulk",
                                                      !.id = b.list[b.i + 1]]]
       /\ bulk' = b
  ELSE /\ ui' = [u EXCEPT !.loadingStreams = FALSE,
                           !.streamProgress = [current |-> 0, total |-> 0]]
       /\ log' = lg
       /\ task' = [task EXCEPT ![t] = IdleTask]
       /\ bulk' = [b EXCEPT !.alert = [successCount |-> b.successCount,
                                       errorCount |-> b.errorCount]]

\* getActivityDetail came back to the loop with locals l: successCount++ and,
\* unless this was the last item, the 200 ms timer; or the catch
BulkItemDone(t, l) ==
  LET ok == l.result = "returned"
      n == Len(bulk.list)
      lg == Append(log, <<"end", l.id>>)
  IN /\ failed' = IF l.detailOutcome = "failed" \/ l.authFailed = "detail"
                  THEN failed \cup {bulk.i + 1} ELSE failed
     /\ IF ok
        THEN IF bulk.i < n - 1
             THEN /\ task' = [task EXCEPT ![t] = [IdleTask EXCEPT !.pc = "bulk_delay",
                                                                 !.op = "bulk"]]
                  /\ bulk' = [bulk EXCEPT !.successCount = @ + 1]
                  /\ log' = lg
                  /\ ui' = ui
             ELSE Iterate(t, [bulk EXCEPT !.successCount = @ + 1, !.i = @ + 1], lg, ui)
        ELSE Iterate(t, [bulk EXCEPT !.errorCount = @ + 1,
                                     !.i = IndexAfterError(bulk.i, n)], lg, ui)

\* A task's step ends with locals l.  A refresh request that was just sent is
\* checked against the provider's current refresh token.  A getActivityDetail
\* that the bulk backfill called returns into its loop.
Settle(t, l) ==
  /\ staleSent' = (staleSent \/ (l.pc = "refresh_fetch" /\ task[t].pc # "refresh_fetch"
                                 /\ Get(l.settings, "refreshToken") # issued))
  /\ IF l.pc = "done" /\ l.op = "bulk"
     THEN BulkItemDone(t, l)
     ELSE /\ task' = [task EXCEPT ![t] = l]
          /\ UNCHANGED uiVars

\* ------------------------------------------------------------- actions
Tick ==
  /\ now < MaxNow * MinuteMs
  /\ now' = now + MinuteMs
  /\ UNCHANGED <<dbVars, mem, issued, task, uiVars, staleSent, settingsPage, detailPage>>

\* a caller (page load, cohort comparison) calls getActivityDetail(id)
CallDetail(t, id) ==
  /\ task[t].pc \in {"idle", "done"}
  /\ task' = [task EXCEPT ![t] = [IdleTask EXCEPT !.pc = "detail_get", !.op = "detail",
                                                 !.id = id]]
  /\ UNCHANGED <<now, dbVars, mem, issued, uiVars, staleSent, settingsPage, detailPage>>

\* db.activityDetails.get(activityId) answers
DetailGetDone(t) ==
  /\ task[t].pc = "detail_get"
  /\ LET cached == TableGet(detailsTbl, task[t].id)
         l == [task[t] EXCEPT !.cachedAtStart = CacheClass(cached)]
     IN Settle(t, IF IsComplete(cached) THEN Return(l, cached, TRUE)
                  ELSE makeAuthenticatedRequest(l, "detail"))
  /\ UNCHANGED <<now, dbVars, mem, issued, settingsPage, detailPage>>

\* getSettings' table read inside ensureValidToken answers
EvtReadDone(t) ==
  /\ task[t].pc = "evt_read"
  /\ LET s == First(settingsTbl)
     IN /\ mem' = s
        /\ Settle(t, CheckToken(task[t], s))
  /\ UNCHANGED <<now, dbVars, issued, settingsPage, detailPage>>

\* the token endpoint answers refreshAccessToken's request
RefreshFetchDone(t, ok, expiresAtSec) ==
  /\ task[t].pc = "refresh_fetch"
  /\ IF ok
     THEN /\ issued < MaxIssued
          /\ task[t].settings.refreshToken = issued
          /\ issued' = issued + 1
          /\ Settle(t, saveSettings([task[t] EXCEPT !.evt.refreshed = TRUE,
                                                    !.evt.issuedTok = issued + 1],
                                    [accessToken |-> issued + 1,
                                     refreshToken |-> issued + 1,
                                     expiresAt |-> expiresAtSec * 1000]))
     ELSE /\ expiresAtSec = CHOOSE e \in ExpiresAtSecs : TRUE
          /\ issued' = issued
          /\ Settle(t, Throw([task[t] EXCEPT !.authFailed = task[t].phase]))
  /\ UNCHANGED <<now, dbVars, mem, settingsPage, detailPage>>

\* getSettings' table read inside saveSettings answers
SaveReadDone(t) ==
  /\ task[t].pc = "save_read"
  /\ LET s == First(settingsTbl)
     IN /\ mem' = s
        /\ Settle(t, [task[t] EXCEPT !.pc = "save_write", !.existing = s])
  /\ UNCHANGED <<now, dbVars, issued, settingsPage, detailPage>>

\* saveSettings' db.settings.update or db.settings.add is done; the caller is
\* exchangeCodeForToken, which returns, or ensureValidToken, which returns the
\* access token of the in-memory copy
SaveWriteDone(t) ==
  /\ task[t].pc = "save_write"
  /\ LET l == task[t]
         m == IF l.existing # Null THEN Spread(l.existing, l.partial)
              ELSE Spread([id |-> nextId], l.partial)
     IN /\ IF l.existing # Null
           THEN /\ settingsTbl' = TableUpdate(settingsTbl, l.existing.id, l.partial)
                /\ nextId' = nextId
           ELSE /\ settingsTbl' = settingsTbl \cup {m}
                /\ nextId' = nextId + 1
        /\ mem' = m
        /\ Settle(t, IF l.op = "exchange" THEN Return(l, Null, FALSE)
                     ELSE SendRequest(l, Get(m, "accessToken")))
  /\ UNCHANGED <<now, activitiesTbl, detailsTbl, athleteTbl, issued, settingsPage, detailPage>>

\* GET /activities/{id} answers
DetailFetchDone(t, ok) ==
  /\ task[t].pc = "detail_fetch"
  /\ IF ok
     THEN Settle(t, makeAuthenticatedRequest(
                      [task[t] EXCEPT !.detail = RemoteDetail(task[t].id),
                                      !.detailOutcome = "ok", !.evt = EvtNone],
                      "streams"))
     ELSE Settle(t, Raise([task[t] EXCEPT !.detailOutcome = "failed"]))
  /\ UNCHANGED <<now, dbVars, mem, issued, settingsPage, detailPage>>

\* GET /activities/{id}/streams answers
StreamFetchDone(t, ok, envelope) ==
  /\ task[t].pc = "stream_fetch"
  /\ IF ok
     THEN Settle(t, [task[t] EXCEPT !.pc = "detail_put", !.evt = EvtNone,
                        !.streamOutcome = "ok",
                        !.detail = Spread(@, [streams |-> TransformStreams(envelope)])])
     ELSE /\ envelope = CHOOSE e \in StreamEnvelopes : TRUE
          /\ Settle(t, Throw([task[t] EXCEPT !.streamOutcome = "failed"]))
  /\ UNCHANGED <<now, dbVars, mem, issued, settingsPage, detailPage>>

\* db.activityDetails.put(activityDetail) is done
DetailPutDone(t) ==
  /\ task[t].pc = "detail_put"
  /\ detailsTbl' = TablePut(detailsTbl, task[t].detail)
  /\ Settle(t, Return([task[t] EXCEPT !.wrote = TRUE], task[t].detail, FALSE))
  /\ UNCHANGED <<now, settingsTbl, nextId, activitiesTbl, athleteTbl, mem, issued, settingsPage, detailPage>>

\* if (!isAuthenticated || loadingStreams) return;
GuardIgnoresLoading(u) == ~u.isAuthenticated
BulkGuard(u) == ~u.isAuthenticated \/ u.loadingStreams

\* fetchAllStreamData is called (the "Fetch Streams" button): its guard, and
\* the function up to its first getActivityDetail
fetchAllStreamData ==
  /\ IF BulkGuard(ui)
     THEN /\ bulk' = [bulk EXCEPT !.blocked = @ \/ ui.loadingStreams]
          /\ UNCHANGED <<task, ui, log, failed>>
     ELSE /\ failed' = {}
          /\ LET list == IF Len(ui.filteredActivities) > 0 THEN ui.filteredActivities
                         ELSE ui.activities
             IN Iterate(BulkTask, [NoBulk EXCEPT !.list = list], <<>>,
                        [ui EXCEPT !.loadingStreams = TRUE])
  /\ UNCHANGED <<now, dbVars, mem, issued, staleSent, settingsPage, detailPage>>

\* the 200 ms timer between two items fires: i++ and the next iteration
DelayDone ==
  /\ task[BulkTask].pc = "bulk_delay"
  /\ Iterate(BulkTask, [bulk EXCEPT !.i = @ + 1], log, ui)
  /\ UNCHANGED <<now, dbVars, mem, issued, staleSent, settingsPage, failed, detailPage>>

\* handleLogout: stravaService.logout() starts with db.settings.clear().  The
\* page offers the logout only while it shows the user as connected, which
\* logout ends.
CallLogout ==
  /\ settingsPage.pc = "idle"
  /\ \E r \in settingsTbl : Get(r, "accessToken") # Undefined
  /\ settingsPage' = [settingsPage EXCEPT !.pc = "logout_settings"]
  /\ UNCHANGED <<now, dbVars, mem, issued, task, uiVars, staleSent, detailPage>>

\* db.settings.clear() is done; clearCache starts with db.activities.clear()
LogoutSettingsDone ==
  /\ settingsPage.pc = "logout_settings"
  /\ settingsTbl' = {}
  /\ settingsPage' = [settingsPage EXCEPT !.pc = "logout_activities"]
  /\ UNCHANGED <<now, nextId, activitiesTbl, detailsTbl, athleteTbl, mem, issued, task,
                 uiVars, staleSent, detailPage>>

\* db.activities.clear() is done; db.activityDetails.clear() follows
LogoutActivitiesDone ==
  /\ settingsPage.pc = "logout_activities"
  /\ activitiesTbl' = {}
  /\ settingsPage' = [settingsPage EXCEPT !.pc = "logout_details"]
  /\ UNCHANGED <<now, settingsTbl, nextId, detailsTbl, athleteTbl, mem, issued, task,
                 uiVars, staleSent, detailPage>>

\* db.activityDetails.clear() is done; logout empties the in-memory copy
LogoutDetailsDone ==
  /\ settingsPage.pc = "logout_details"
  /\ detailsTbl' = {}
  /\ mem' = Null
  /\ settingsPage' = [settingsPage EXCEPT !.pc = "loggedOut"]
  /\ UNCHANGED <<now, settingsTbl, nextId, activitiesTbl, athleteTbl, issued, task,
                 uiVars, staleSent, detailPage>>

Logout == CallLogout \/ LogoutSettingsDone \/ LogoutActivitiesDone \/ LogoutDetailsDone

\* -------------------------------------------------- export and import
\* the four tables of the schema, in the order exportData and importData
\* go through them
TableNames == <<"settings", "activities", "activityDetails", "athlete">>

TableOf(name) ==
  CASE name = "settings" -> settingsTbl
    [] name = "activities" -> activitiesTbl
    [] name = "activityDetails" -> detailsTbl
    [] name = "athlete" -> athleteTbl

\* the rows of the four tables
Contents == [k \in DOMAIN TableNames |-> TableOf(TableNames[k])]

\* table.toArray(): the rows in primary key order
toArray(tbl) ==
  CHOOSE s \in [1..Cardinality(tbl) -> tbl] :
    \A i, j \in 1..Cardinality(tbl) : i < j => s[i].id < s[j].id

\* JSON.parse(JSON.stringify(row)): a field whose value is undefined is left
\* out of the text; a stream bundle is an object and is written as it is
JsonRow(row) ==
  [f \in {g \in DOMAIN row : ~(g # "streams" /\ row[g] = Undefined)} |-> row[f]]

\* new Date().toISOString(): a non-empty string, which is truthy
ToISOString(t) == t + 1

\* the version number exportData writes
ExportVersion == 4

\* exportData's document once all four tables are read, as the JSON text
\* carries it
JsonDocument(data) ==
  [version |-> ExportVersion, timestamp |-> data.timestamp] @@
  [name \in {TableNames[k] : k \in DOMAIN TableNames} |->
     [i \in DOMAIN data[name] |-> JsonRow(data[name][i])]]

\* importData's validation: !data.version || !data.timestamp throws
AcceptsAll(data) == TRUE
Valid(data) == Get(data, "version") # Undefined /\ Get(data, "timestamp") # Undefined

\* data.<table> && Array.isArray(data.<table>): the rows bulkAdd is given
Rows(data, name) == IF name \in DOMAIN data THEN data[name] ELSE <<>>

\* bulkAdd fails with a ConstraintError when a key is already in the table
\* or comes twice in the array
KeyClash(tbl, rows) ==
  \E i \in DOMAIN rows :
    \/ \E r \in tbl : r.id = rows[i].id
    \/ \E j \in DOMAIN rows : j # i /\ rows[j].id = rows[i].id

bulkAdd(tbl, rows) == tbl \cup {rows[i] : i \in DOMAIN rows}

\* the key generator of ++id after rows with explicit keys are added
KeyAfter(key, rows) ==
  IF \E i \in DOMAIN rows : rows[i].id >= key
  THEN 1 + CHOOSE m \in {rows[i].id : i \in DOMAIN rows} :
             \A i \in DOMAIN rows : rows[i].id <= m
  ELSE key

\* The Settings page with no operation started yet.  file is the backup the
\* last export downloaded; snapshot, before, cleared, result and roundTrip are
\* history: the tables when that export was called, the tables when the
\* operation running or run last was called, how the clear stage went, how
\* the operation ended and whether the imported text is the downloaded backup.
IdlePage == [pc |-> "idle", file |-> Null, snapshot |-> Null, data |-> Null, k |-> 0,
             before |-> Null, cleared |-> "no", result |-> "none", roundTrip |-> FALSE]

\* the ActivityDetail page has nothing loaded and has computed nothing
NoAnalysis == [fn |-> "none"]

\* no export, import or logout is running on the page
PageFree == settingsPage.pc \in {"idle", "export_done", "import_done"}

\* handleExportData: exportData builds its object, version and timestamp
\* first, and waits for settings.toArray()
handleExportData ==
  /\ PageFree
  /\ settingsPage' = [IdlePage EXCEPT !.pc = "export_read", !.k = 1,
                                      !.file = settingsPage.file,
                                      !.snapshot = settingsPage.snapshot,
                                      !.data = [timestamp |-> ToISOString(now)],
                                      !.before = Contents]
  /\ UNCHANGED <<now, dbVars, mem, issued, task, uiVars, staleSent, detailPage>>

\* toArray() of the k-th table is done: the next table is read, or the text is
\* made and downloaded; a failed read is rethrown and nothing is downloaded
ExportReadDone(ok) ==
  /\ settingsPage.pc = "export_read"
  /\ LET k == settingsPage.k
         name == TableNames[k]
         data == settingsPage.data @@ [n \in {name} |-> toArray(TableOf(name))]
     IN settingsPage' =
          IF ~ok THEN [IdlePage EXCEPT !.pc = "export_done", !.result = "raised",
                                       !.file = settingsPage.file,
                                       !.snapshot = settingsPage.snapshot]
          ELSE IF k < Len(TableNames)
          THEN [settingsPage EXCEPT !.data = data, !.k = k + 1]
          ELSE [IdlePage EXCEPT !.pc = "export_done", !.result = "exported",
                                !.file = JsonDocument(data),
                                !.snapshot = settingsPage.before]
  /\ UNCHANGED <<now, dbVars, mem, issued, task, uiVars, staleSent, detailPage>>

\* handleImportData with the chosen file's text read: importAllData calls
\* importData, which parses and validates, then waits for clearAllData's
\* transaction
handleImportData(text, roundTrip) ==
  /\ PageFree
  /\ LET page == [IdlePage EXCEPT !.file = settingsPage.file,
                                  !.snapshot = settingsPage.snapshot,
                                  !.data = text, !.before = Contents,
                                  !.roundTrip = roundTrip]
     IN settingsPage' = IF Valid(text)
                        THEN [page EXCEPT !.pc = "import_clear"]
                        ELSE [page EXCEPT !.pc = "import_done", !.result = "raised"]
  /\ UNCHANGED <<now, dbVars, mem, issued, task, uiVars, staleSent, detailPage>>

\* clearAllData's transaction over the four tables committed, or aborted with
\* every table as it was; the catch logs the error and importData goes on to
\* the transaction that adds the rows
ImportClearDone(ok) ==
  /\ settingsPage.pc = "import_clear"
  /\ IF ok
     THEN /\ settingsTbl' = {}
          /\ activitiesTbl' = {}
          /\ detailsTbl' = {}
          /\ athleteTbl' = {}
     ELSE UNCHANGED <<settingsTbl, activitiesTbl, detailsTbl, athleteTbl>>
  /\ settingsPage' = [settingsPage EXCEPT !.pc = "import_add",
                                          !.cleared = IF ok THEN "ok" ELSE "failed"]
  /\ UNCHANGED <<now, nextId, mem, issued, task, uiVars, staleSent, detailPage>>

\* The adding transaction committed, or aborted (a bulkAdd hit a key that is
\* there already, or the storage failed) with every table as it was and
\* the error rethrown.  importAllData empties the in-memory copy only after
\* importData returned.
ImportAddDone(ok) ==
  /\ settingsPage.pc = "import_add"
  /\ LET data == settingsPage.data
         clash == \E k \in DOMAIN TableNames :
                    KeyClash(TableOf(TableNames[k]), Rows(data, TableNames[k]))
     IN IF ok /\ ~clash
        THEN /\ settingsTbl' = bulkAdd(settingsTbl, Rows(data, "settings"))
             /\ activitiesTbl' = bulkAdd(activitiesTbl, Rows(data, "activities"))
             /\ detailsTbl' = bulkAdd(detailsTbl, Rows(data, "activityDetails"))
             /\ athleteTbl' = bulkAdd(athleteTbl, Rows(data, "athlete"))
             /\ nextId' = KeyAfter(nextId, Rows(data, "settings"))
             /\ mem' = Null
             /\ settingsPage' = [settingsPage EXCEPT !.pc = "import_done",
                                                     !.result = "imported"]
        ELSE /\ UNCHANGED <<dbVars, mem>>
             /\ settingsPage' = [settingsPage EXCEPT !.pc = "import_done",
                                                     !.result = "raised"]
  /\ UNCHANGED <<now, issued, task, uiVars, staleSent, detailPage>>

\* a summary activity as getActivities stores it, and the athlete profile
ActivityRow(id) == [id |-> id, name |-> id, type |-> 1]
AthleteRow == [id |-> 1, firstname |-> 1]

\* --------------------------------------------- the OAuth callback, reset
\* handleOAuthCallback after getSettings returned s: without client id or
\* client secret an error is shown and nothing is sent; otherwise
\* exchangeCodeForToken posts the code with them
OAuthCheck(l, s) ==
  IF s = Null \/ Get(s, "clientId") = Undefined \/ Get(s, "clientSecret") = Undefined
  THEN [Finished(l) EXCEPT !.result = "rejected"]
  ELSE [l EXCEPT !.pc = "exchange_fetch", !.settings = s]

\* the Activities page is mounted with ?code= in its address
handleOAuthCallback(t) ==
  /\ task[t].pc = "idle"
  /\ LET l == [IdleTask EXCEPT !.op = "exchange"]
     IN Settle(t, IF mem = Null THEN [l EXCEPT !.pc = "oauth_read"]
                  ELSE OAuthCheck(l, mem))
  /\ UNCHANGED <<now, dbVars, mem, issued, settingsPage, detailPage>>

\* getSettings' table read inside handleOAuthCallback answers
OAuthReadDone(t) ==
  /\ task[t].pc = "oauth_read"
  /\ LET s == First(settingsTbl)
     IN /\ mem' = s
        /\ Settle(t, OAuthCheck(task[t], s))
  /\ UNCHANGED <<now, dbVars, issued, settingsPage, detailPage>>

\* what exchangeCodeForToken hands to saveSettings
ExchangePartial(s, token, expiresAtSec, scope) ==
  [clientId |-> s.clientId, clientSecret |-> s.clientSecret,
   accessToken |-> token, refreshToken |-> token,
   expiresAt |-> expiresAtSec * 1000, scope |-> scope]

\* the token endpoint answers exchangeCodeForToken's request: a non-success
\* status is thrown, otherwise the tokens are saved
ExchangeUnchecked(t, ok, expiresAtSec, scope) ==
  /\ task[t].pc = "exchange_fetch"
  /\ ok => issued < MaxIssued + MaxCodes
  /\ issued' = IF ok THEN issued + 1 ELSE issued
  /\ Settle(t, saveSettings(task[t],
                 ExchangePartial(task[t].settings, IF ok THEN issued + 1 ELSE Undefined,
                                 expiresAtSec, scope)))
  /\ UNCHANGED <<now, dbVars, mem, settingsPage, detailPage>>
ExchangeFetchDone(t, ok, expiresAtSec, scope) ==
  /\ task[t].pc = "exchange_fetch"
  /\ IF ok
     THEN /\ issued < MaxIssued + MaxCodes
          /\ issued' = issued + 1
          /\ Settle(t, saveSettings(task[t],
                         ExchangePartial(task[t].settings, issued + 1, expiresAtSec, scope)))
     ELSE /\ expiresAtSec = CHOOSE e \in ExpiresAtSecs : TRUE
          /\ scope = Undefined
          /\ issued' = issued
          /\ Settle(t, Raise(task[t]))
  /\ UNCHANGED <<now, dbVars, mem, settingsPage, detailPage>>

\* handleResetDatabase, confirmed: resetDatabase waits for db.delete()
handleResetDatabase ==
  /\ PageFree
  /\ settingsPage' = [IdlePage EXCEPT !.pc = "reset_delete", !.file = settingsPage.file,
                                      !.snapshot = settingsPage.snapshot,
                                      !.before = Contents]
  /\ UNCHANGED <<now, dbVars, mem, issued, task, uiVars, staleSent, detailPage>>

\* db.delete() is done, or it failed and deleteDatabase logged the error:
\* resetDatabase empties the in-memory copy and returns, and the page is
\* loaded again, which ends every call that was waiting
ResetDeleteDone(ok) ==
  /\ settingsPage.pc = "reset_delete"
  /\ IF ok
     THEN /\ settingsTbl' = {}
          /\ activitiesTbl' = {}
          /\ detailsTbl' = {}
          /\ athleteTbl' = {}
          /\ nextId' = 1
     ELSE UNCHANGED dbVars
  /\ mem' = Null
  /\ task' = [t \in Tasks |-> IdleTask]
  /\ settingsPage' = [settingsPage EXCEPT !.pc = "reset_done",
                                          !.cleared = IF ok THEN "ok" ELSE "failed",
                                          !.result = "returned"]
  /\ UNCHANGED <<now, issued, uiVars, staleSent, detailPage>>

\* -------------------------------------------------------- getActivities
\* the athlete's activities as the provider lists them
RemoteActivities == [k \in 1..NumIds |-> ActivityRow(k)]

\* the body of GET /athlete/activities?page=..&per_page=..
RemotePage(page, perPage) ==
  LET last == IF page * perPage < NumIds THEN page * perPage ELSE NumIds
  IN SubSeq(RemoteActivities, (page - 1) * perPage + 1, last)

\* the pages and page sizes getActivities is called with
Pages == {1, 2}
PageSizes == {1, 2}

\* a record of the activity stored by an earlier fetch, before the activity
\* was renamed and with a field the provider does not send any more
OlderActivity(id) == [id |-> id, name |-> NumIds + id, type |-> 1, flagged |-> 1]

\* db.activities.put(activity): insert or replace by primary key
MergeActivity(tbl, row) ==
  {r \in tbl : r.id # row.id} \cup
  {Spread(IF TableGet(tbl, row.id) = Null THEN row ELSE TableGet(tbl, row.id), row)}
PutActivity(tbl, row) == TablePut(tbl, row)

\* getActivities returns the parsed response
ListResult(activities, tbl) == activities

\* a non-success status is thrown, the request is not sent again
ListFailed(l) == Raise([l EXCEPT !.listOutcome = "failed"])

\* loadActivities calls getActivities(page, perPage), which starts with
\* makeAuthenticatedRequest
CallList(t, page, perPage) ==
  /\ task[t].pc \in {"idle", "done"}
  /\ Settle(t, makeAuthenticatedRequest(
                 [IdleTask EXCEPT !.op = "list", !.page = page, !.perPage = perPage],
                 "list"))
  /\ UNCHANGED <<now, dbVars, mem, issued, settingsPage, detailPage>>

\* GET /athlete/activities answers: a non-success status is thrown; otherwise
\* the loop over the page starts with its first put, or there is nothing to put
ListFetchDone(t, ok) ==
  /\ task[t].pc = "list_fetch"
  /\ LET activities == RemotePage(task[t].page, task[t].perPage)
         l == [task[t] EXCEPT !.listOutcome = "ok", !.evt = EvtNone]
     IN Settle(t, IF ~ok THEN ListFailed(task[t])
                  ELSE IF Len(activities) = 0
                  THEN Return(l, ListResult(activities, activitiesTbl), FALSE)
                  ELSE [l EXCEPT !.pc = "list_put", !.activities = activities, !.k = 1])
  /\ UNCHANGED <<now, dbVars, mem, issued, settingsPage, detailPage>>

\* db.activities.put of the k-th activity of the page is done
ListPutDone(t) ==
  /\ task[t].pc = "list_put"
  /\ LET l == task[t]
     IN /\ activitiesTbl' = PutActivity(activitiesTbl, l.activities[l.k])
        /\ Settle(t, IF l.k < Len(l.activities)
                     THEN [l EXCEPT !.k = @ + 1]
                     ELSE Return([l EXCEPT !.wrote = TRUE],
                                 ListResult(l.activities, activitiesTbl'), FALSE))
  /\ UNCHANGED <<now, settingsTbl, nextId, detailsTbl, athleteTbl, mem, issued, settingsPage, detailPage>>

\* ------------------------------------------------------- initial states
FullSettings(expiresAtSec) ==
  [id |-> 1, clientId |-> 1, clientSecret |-> 1, accessToken |-> 1,
   refreshToken |-> 1, expiresAt |-> expiresAtSec * 1000, scope |-> 1]

\* nothing saved; client id and secret saved; connected (code exchanged)
InitialSettings ==
  {{}, {[id |-> 1, clientId |-> 1, clientSecret |-> 1]}}
  \cup {{FullSettings(e)} : e \in ExpiresAtSecs}

InitialUi == [isAuthenticated |-> FALSE, loadingStreams |-> FALSE,
              streamProgress |-> [current |-> 0, total |-> 0],
              activities |-> <<>>, filteredActivities |-> <<>>]

\* checkAuthAndLoadActivities: isAuthenticated is whether an access token is stored
Connected == \E r \in settingsTbl : Get(r, "accessToken") # Undefined

\* applyFilters: the activities the filters keep, in list order
applyFilters(activities, hidden) == SelectSeq(activities, LAMBDA id : id \notin hidden)

\* details cached before: none, or one activity's, with or without streams
InitialDetails ==
  {{}} \cup {{RemoteDetail(id)} : id \in Ids}
       \cup {{Spread(RemoteDetail(id), [streams |-> TransformStreams(env)])} :
               id \in Ids, env \in StreamEnvelopes}

InitService ==
  /\ now = 0
  /\ settingsTbl \in InitialSettings
  /\ nextId = IF settingsTbl = {} THEN 1 ELSE 2
  /\ issued = IF \E r \in settingsTbl : "accessToken" \in DOMAIN r THEN 1 ELSE 0
  /\ mem = Null
  /\ task = [t \in Tasks |-> IdleTask]
  /\ staleSent = FALSE

Init ==
  /\ InitService
  /\ activitiesTbl = {}
  /\ detailsTbl = {}
  /\ athleteTbl = {}
  /\ ui = [InitialUi EXCEPT !.isAuthenticated = Connected]
  /\ bulk = NoBulk
  /\ log = <<>>
  /\ failed = {}
  /\ settingsPage = IdlePage
  /\ detailPage = NoAnalysis

\* The activities list is mounted with n activities loaded, no filter or a
\* filter that hides the first one, and some details cached by earlier visits.
InitBulk ==
  /\ InitService
  /\ activitiesTbl = {}
  /\ athleteTbl = {}
  /\ detailsTbl \in InitialDetails
  /\ \E n \in 1..NumIds :
       \E hidden \in {{}, {PageId}} :
         ui = [InitialUi EXCEPT
                 !.isAuthenticated = Connected,
                 !.activities = [k \in 1..n |-> k],
                 !.filteredActivities = applyFilters([k \in 1..n |-> k], hidden)]
  /\ bulk = NoBulk
  /\ log = <<>>
  /\ failed = {}
  /\ settingsPage = IdlePage
  /\ detailPage = NoAnalysis

\* Files the user can pick that no export of this run wrote: one without
\* version, one without timestamp, backups holding one activity, and one
\* whose activities array has the same activity twice.
OtherFiles ==
  {[timestamp |-> 1, activities |-> <<ActivityRow(PageId)>>],
   [version |-> ExportVersion, activities |-> <<ActivityRow(PageId)>>],
   [version |-> ExportVersion, timestamp |-> 1,
    activities |-> <<ActivityRow(PageId), ActivityRow(PageId)>>]}
  \cup {[version |-> ExportVersion, timestamp |-> 1, settings |-> <<>>,
         activities |-> <<ActivityRow(id)>>, athlete |-> <<AthleteRow>>] : id \in Ids}

\* The activities list loads a page: the activities table is empty or holds
\* older records of the first or of all the activities.
InitList ==
  /\ InitService
  /\ activitiesTbl \in {{}, {OlderActivity(PageId)}, {OlderActivity(id) : id \in Ids}}
  /\ detailsTbl = {}
  /\ athleteTbl = {}
  /\ ui = [InitialUi EXCEPT !.isAuthenticated = Connected]
  /\ bulk = NoBulk
  /\ log = <<>>
  /\ failed = {}
  /\ settingsPage = IdlePage
  /\ detailPage = NoAnalysis

\* The Activities page is mounted over credentials saved earlier, with or
\* without the authorization code in its address.
InitAuth ==
  /\ InitService
  /\ activitiesTbl = {}
  /\ detailsTbl = {}
  /\ athleteTbl = {}
  /\ ui = [InitialUi EXCEPT !.isAuthenticated = Connected]
  /\ bulk = NoBulk
  /\ log = <<>>
  /\ failed = {}
  /\ settingsPage = IdlePage
  /\ detailPage = NoAnalysis

\* The Settings page is mounted (its getSettings filled the in-memory copy)
\* over a store that earlier sessions filled; the first exchange that saved
\* the tokens may have stored scope as undefined.
InitStore ==
  /\ now = 0
  /\ settingsTbl \in InitialSettings
                     \cup {{[FullSettings(e) EXCEPT !.scope = Undefined]} : e \in ExpiresAtSecs}
  /\ nextId = IF settingsTbl = {} THEN 1 ELSE 2
  /\ issued = IF \E r \in settingsTbl : "accessToken" \in DOMAIN r THEN 1 ELSE 0
  /\ mem = First(settingsTbl)
  /\ task = [t \in Tasks |-> IdleTask]
  /\ staleSent = FALSE
  /\ activitiesTbl \in {{}, {ActivityRow(PageId)}}
  /\ detailsTbl \in InitialDetails
  /\ athleteTbl \in {{}, {AthleteRow}}
  /\ ui = InitialUi
  /\ bulk = NoBulk
  /\ log = <<>>
  /\ failed = {}
  /\ settingsPage = IdlePage
  /\ detailPage = NoAnalysis

\* ensureValidToken's steps while the in-memory copy stays filled
TokenStep(t) ==
  \/ EvtReadDone(t)
  \/ \E ok \in BOOLEAN, e \in ExpiresAtSecs : RefreshFetchDone(t, ok, e)
  \/ SaveWriteDone(t)

ServiceStep(t) ==
  \/ DetailGetDone(t)
  \/ TokenStep(t)
  \/ SaveReadDone(t)
  \/ \E ok \in BOOLEAN : DetailFetchDone(t, ok)
  \/ \E ok \in BOOLEAN, env \in StreamEnvelopes : StreamFetchDone(t, ok, env)
  \/ DetailPutDone(t)

Next ==
  \/ Tick
  \/ \E t \in PageCallers : CallDetail(t, PageId)
  \/ \E t \in PageCallers : ServiceStep(t)
  \/ Logout

Spec == Init /\ [][Next]_vars

\* the bulk backfill of the activities list, the clock and a logout
NextBulk ==
  \/ fetchAllStreamData
  \/ DelayDone
  \/ ServiceStep(BulkTask)
  \/ Tick
  \/ Logout

SpecBulk == InitBulk /\ [][NextBulk]_vars

\* the Settings page's export and import
NextStore ==
  \/ handleExportData
  \/ \E ok \in BOOLEAN : ExportReadDone(ok)
  \/ \E text \in OtherFiles : handleImportData(text, FALSE)
  \/ settingsPage.file # Null /\ handleImportData(settingsPage.file, TRUE)
  \/ \E ok \in BOOLEAN : ImportClearDone(ok)
  \/ \E ok \in BOOLEAN : ImportAddDone(ok)

SpecStore == InitStore /\ [][NextStore]_vars

\* getActivities called by the activities list, and the clock
NextList ==
  \/ \E page \in Pages, perPage \in PageSizes : CallList(ListTask, page, perPage)
  \/ TokenStep(ListTask)
  \/ \E ok \in BOOLEAN : ListFetchDone(ListTask, ok)
  \/ ListPutDone(ListTask)
  \/ Tick

SpecList == InitList /\ [][NextList]_vars

\* the tasks that save credentials: the list load (through a token refresh)
\* and the OAuth callback
AuthTasks == {ListTask, OAuthTask}

\* the mount-time list load and the OAuth callback of the Activities page,
\* then logout or reset on the Settings page, and the clock
NextAuth ==
  \/ Tick
  \/ CallList(ListTask, 1, 1)
  \/ \E ok \in BOOLEAN : ListFetchDone(ListTask, ok)
  \/ ListPutDone(ListTask)
  \/ handleOAuthCallback(OAuthTask)
  \/ OAuthReadDone(OAuthTask)
  \/ \E ok \in BOOLEAN, e \in ExpiresAtSecs, scope \in {Undefined, 1} :
       ExchangeFetchDone(OAuthTask, ok, e, scope)
  \/ \E t \in AuthTasks : TokenStep(t) \/ SaveReadDone(t)
  \/ Logout
  \/ handleResetDatabase
  \/ \E ok \in BOOLEAN : ResetDeleteDone(ok)

SpecAuth == InitAuth /\ [][NextAuth]_vars

\* ---------------------------------------------- pure functions: inputs
\* everything but the ActivityDetail page
serviceVars == <<now, dbVars, mem, issued, task, uiVars, staleSent, settingsPage>>

\* nothing stored, nothing running: the state in which a function of the
\* service or of the ActivityDetail page is applied to drawn inputs
InitPure ==
  /\ now = 0
  /\ settingsTbl = {}
  /\ nextId = 1
  /\ activitiesTbl = {}
  /\ detailsTbl = {}
  /\ athleteTbl = {}
  /\ mem = Null
  /\ issued = 0
  /\ task = [t \in Tasks |-> IdleTask]
  /\ ui = InitialUi
  /\ bulk = NoBulk
  /\ log = <<>>
  /\ failed = {}
  /\ staleSent = FALSE
  /\ settingsPage = IdlePage

\* ---------------------------------------------------- getActivityStreams
\* const streamTypes = ['time', 'distance', ...]: the kinds that are requested
\* and that StreamData declares
StreamTypes ==
  {"time", "distance", "latlng", "altitude", "velocity_smooth", "heartrate",
   "cadence", "watts", "temp", "moving", "grade_smooth"}

\* keys a response can carry: three of the requested kinds and one that was
\* not requested
ResponseKeys == {"time", "heartrate", "watts", "elevation"}

\* the bodies of GET /activities/{id}/streams: any of the keys, each with or
\* without a data payload
ResponseBodies ==
  UNION {[K -> [hasData : BOOLEAN]] : K \in SUBSET ResponseKeys}

InitStreams ==
  /\ InitPure
  /\ \E body \in ResponseBodies :
       detailPage = [fn |-> "getActivityStreams", body |-> body, done |-> FALSE,
                     streams |-> {}]

\* response.json() is there: the forEach over its keys builds the StreamData
getActivityStreams ==
  /\ detailPage.fn = "getActivityStreams"
  /\ ~detailPage.done
  /\ detailPage' = [detailPage EXCEPT !.done = TRUE,
                                      !.streams = TransformStreams(detailPage.body)]
  /\ UNCHANGED serviceVars

NextStreams == getActivityStreams

SpecStreams == InitStreams /\ [][NextStreams]_vars

\* ------------------------------------------------------ heart-rate zones
\* new Date().getFullYear()
CurrentYear == 2025

\* birth years handleSaveBirthYear accepts (1900..current year): the two ends
\* and four between
BirthYears == {1900, 1960, 1970, 1980, 1990, CurrentYear}

\* the products m * 0.7 that as doubles fall just under k + 0.5, for m in
\* 0..220 (45 * 0.7 = 31.499999999999996, 165 * 0.7 = 115.49999999999999)
RoundsUnderHalf == {45, 85, 165, 175}

\* Math.round(m * tenths / 10) as the doubles give it, m in 0..220
MathRound(m, tenths) ==
  IF tenths = 7 /\ m \in RoundsUnderHalf THEN (m * tenths) \div 10
  ELSE (m * tenths * 2 + 10) \div 20

calculateMaxHeartRate(birthYear) == 220 - (CurrentYear - birthYear)

\* zone n -> its min and max
getHeartRateZones(maxHR) ==
  << [min |-> 0, max |-> MathRound(maxHR, 6)],
     [min |-> MathRound(maxHR, 6), max |-> MathRound(maxHR, 7)],
     [min |-> MathRound(maxHR, 7), max |-> MathRound(maxHR, 8)],
     [min |-> MathRound(maxHR, 8), max |-> MathRound(maxHR, 9)],
     [min |-> MathRound(maxHR, 9), max |-> maxHR] >>

\* the if chain of the forEach body: the zone a sample is charged to, 0 when
\* the sample is skipped (hr && hr > 0 fails)
ZoneOfStrict(hr, zones) ==
  IF ~(hr > 0) THEN 0
  ELSE IF hr < zones[1].max THEN 1
  ELSE IF hr < zones[2].max THEN 2
  ELSE IF hr < zones[3].max THEN 3
  ELSE IF hr < zones[4].max THEN 4
  ELSE 5
ZoneOf(hr, zones) ==
  IF ~(hr > 0) THEN 0
  ELSE IF hr <= zones[1].max THEN 1
  ELSE IF hr <= zones[2].max THEN 2
  ELSE IF hr <= zones[3].max THEN 3
  ELSE IF hr <= zones[4].max THEN 4
  ELSE 5

\* the page holds an athlete with a birth year and meets one sample
InitZones ==
  /\ InitPure
  /\ \E y \in BirthYears, h \in -1..MaxRate :
       detailPage = [fn |-> "zones", birthYear |-> y, hr |-> h, done |-> FALSE,
                     maxHR |-> 0, zones |-> <<>>, zone |-> 0]

\* calculateMaxHeartRate, getHeartRateZones and the if chain for the sample
classifySample ==
  /\ detailPage.fn = "zones"
  /\ ~detailPage.done
  /\ LET maxHR == calculateMaxHeartRate(detailPage.birthYear)
         zones == getHeartRateZones(maxHR)
     IN detailPage' = [detailPage EXCEPT !.done = TRUE, !.maxHR = maxHR,
                                         !.zones = zones,
                                         !.zone = ZoneOf(detailPage.hr, zones)]
  /\ UNCHANGED serviceVars

NextZones == classifySample

SpecZones == InitZones /\ [][NextZones]_vars

\* ------------------------------------- zone distribution, relative effort
\* heart-rate samples: a dropout and, for maxHR 185, one value per zone
SampleRates == {0, 100, 120, 140, 160, 190}

\* values of the time stream, in seconds
SampleTimes == {0, 30, 60}

NonDecreasing(seq) == \A i \in 1..(Len(seq) - 1) : seq[i] <= seq[i + 1]

\* streams.heartrate of the loaded activity
HeartRateStreams == UNION {[1..n -> SampleRates] : n \in 1..MaxLen}

\* activity.streams.time || []: no time stream, or one as long as the
\* heart-rate stream or one sample longer
TimeStreams(n) ==
  {<<>>} \cup {t \in [1..n -> SampleTimes] \cup [1..(n + 1) -> SampleTimes] :
                 NonDecreasing(t)}

\* index < timeData.length - 1 ? timeData[index + 1] - timeData[index] : 1
\* (i counts from 1)
AlwaysOneSecond(i, time) == 1
timeIncrement(i, time) == IF i < Len(time) THEN time[i + 1] - time[i] ELSE 1

\* const zoneMultipliers = { zone1: 1, zone2: 2, zone3: 3, zone4: 5, zone5: 8 }
zoneMultipliers == <<1, 2, 3, 5, 8>>

\* the forEach of calculateRelativeEffortPoints from sample i on, added to the
\* running totals acc
RECURSIVE EffortFrom(_, _, _, _, _)
EffortFrom(i, hr, time, zones, acc) ==
  IF i > Len(hr) THEN acc
  ELSE LET z == ZoneOf(hr[i], zones)
           inc == timeIncrement(i, time)
       IN EffortFrom(i + 1, hr, time, zones,
            IF z = 0 THEN acc
            ELSE [totalEffortPoints |-> acc.totalEffortPoints + inc * zoneMultipliers[z],
                  totalTimeInZones |-> acc.totalTimeInZones + inc])

\* the forEach of getHeartRateZoneDistribution from sample i on: the seconds
\* of every zone, added to dist
RECURSIVE DistributionFrom(_, _, _, _, _)
DistributionFrom(i, hr, time, zones, dist) ==
  IF i > Len(hr) THEN dist
  ELSE LET z == ZoneOf(hr[i], zones)
       IN DistributionFrom(i + 1, hr, time, zones,
            IF z = 0 THEN dist
            ELSE [dist EXCEPT ![z] = @ + timeIncrement(i, time)])

\* Math.round(n / d) for n >= 0, d > 0
RoundDiv(n, d) == (2 * n + d) \div (2 * d)

\* timeData[timeData.length - 1] || 1
LastTimeOrOne(time) ==
  IF Len(time) > 0 /\ time[Len(time)] # 0 THEN time[Len(time)] ELSE 1

\* the chart entries: one per zone whose rounded minutes are above 0
ChartEntries(dist, time) ==
  {[zone |-> z, time |-> RoundDiv(dist[z], 60),
    seconds |-> dist[z], of |-> LastTimeOrOne(time),
    percentage |-> RoundDiv(dist[z] * 100, LastTimeOrOne(time))] :
     z \in {y \in 1..5 : RoundDiv(dist[y], 60) > 0}}

\* the page holds an activity with a heart-rate stream and an athlete with a
\* birth year
InitEffort ==
  /\ InitPure
  /\ \E y \in {1960, 1990}, hr \in HeartRateStreams :
       \E time \in TimeStreams(Len(hr)) :
         detailPage = [fn |-> "effort", birthYear |-> y, heartrate |-> hr, time |-> time,
                       effort |-> Null, distribution |-> Null]

calculateRelativeEffortPoints ==
  /\ detailPage.fn = "effort"
  /\ detailPage.effort = Null
  /\ LET zones == getHeartRateZones(calculateMaxHeartRate(detailPage.birthYear))
         sums == EffortFrom(1, detailPage.heartrate, detailPage.time, zones,
                            [totalEffortPoints |-> 0, totalTimeInZones |-> 0])
     IN detailPage' = [detailPage EXCEPT !.effort =
                         [totalPoints |-> sums.totalEffortPoints,
                          totalTimeInZones |-> sums.totalTimeInZones,
                          timeInZones |-> RoundDiv(sums.totalTimeInZones, 60)]]
  /\ UNCHANGED serviceVars

getHeartRateZoneDistribution ==
  /\ detailPage.fn = "effort"
  /\ detailPage.distribution = Null
  /\ LET zones == getHeartRateZones(calculateMaxHeartRate(detailPage.birthYear))
         dist == DistributionFrom(1, detailPage.heartrate, detailPage.time, zones,
                                  [z \in 1..5 |-> 0])
     IN detailPage' = [detailPage EXCEPT !.distribution =
                         [entries |-> ChartEntries(dist, detailPage.time)]]
  /\ UNCHANGED serviceVars

NextEffort == calculateRelativeEffortPoints \/ getHeartRateZoneDistribution

SpecEffort == InitEffort /\ [][NextEffort]_vars

\* --------------------------------------------------- loadComparisonData
\* the task in which the cohort comparison calls getActivityDetail
CohortTask == "loadComparisonData"

\* the subject and NumIds other cached activities
CohortIds == 1..(NumIds + 1)

\* start_date_local of the subject, and of the others: later on the same
\* day, the day after, the month before, the year before
SubjectStart == [year |-> 2025, month |-> 2, day |-> 1, hour |-> 12]
CandidateStarts ==
  { [year |-> 2025, month |-> 2, day |-> 1, hour |-> 18],
    [year |-> 2025, month |-> 2, day |-> 2, hour |-> 7],
    [year |-> 2025, month |-> 1, day |-> 31, hour |-> 7],
    [year |-> 2024, month |-> 2, day |-> 1, hour |-> 7] }

\* the order of start_date_local values in the index of db.activities
Instant(d) == ((d.year * 100 + d.month) * 100 + d.day) * 100 + d.hour

\* new Date(start_date_local).toLocaleDateString(): the day, without the time
toLocaleDateString(d) == [year |-> d.year, month |-> d.month, day |-> d.day]

\* new Date(date).getTime() of such a string
getTime(date) == (date.year * 100 + date.month) * 100 + date.day

\* a cached summary activity with its start
CachedActivity(id, start) == Spread(ActivityRow(id), [start_date_local |-> start])

\* db.activities.orderBy('start_date_local').reverse().toArray(): latest
\* first, and the greater primary key first among equal starts
RECURSIVE getCachedActivities(_)
getCachedActivities(tbl) ==
  IF tbl = {} THEN <<>>
  ELSE LET top == CHOOSE r \in tbl :
                    \A q \in tbl :
                      \/ Instant(q.start_date_local) < Instant(r.start_date_local)
                      \/ /\ Instant(q.start_date_local) = Instant(r.start_date_local)
                         /\ q.id <= r.id
       IN <<top>> \o getCachedActivities(tbl \ {top})

\* the filter of the period
InPeriodWithSubject(act, activity, period) ==
  /\ act.start_date_local.year = activity.start_date_local.year
  /\ period = "month" => act.start_date_local.month = activity.start_date_local.month
InPeriod(act, activity, period) ==
  /\ act.start_date_local.year = activity.start_date_local.year
  /\ period = "month" => act.start_date_local.month = activity.start_date_local.month
  /\ act.id # activity.id

\* totalPoints of the subject's streams, and the effort the loop computes
\* from the heart-rate stream of another activity
SubjectEffort == 25
CandidateEffort(id) == id * 10

\* calculateRelativeEffortPoints() for the page's activity: null without a
\* heart-rate stream or without a birth year
CurrentEffort(p) ==
  IF "streams" \in DOMAIN p.activity /\ "heartrate" \in p.activity.streams
     /\ p.athlete.birth_year # Undefined
  THEN [totalPoints |-> SubjectEffort]
  ELSE Null

ComparisonEntry(act, effort, current) ==
  [id |-> act.id, date |-> toLocaleDateString(act.start_date_local),
   effort |-> effort, isCurrentActivity |-> current]

\* comparisonResults.sort((a, b) => date a - date b): stable, so entries of
\* the same day keep the order in which they were pushed
InsertByDate(sorted, x) ==
  LET k == Cardinality({i \in 1..Len(sorted) : getTime(sorted[i].date) <= getTime(x.date)})
  IN SubSeq(sorted, 1, k) \o <<x>> \o SubSeq(sorted, k + 1, Len(sorted))

RECURSIVE SortByDate(_)
SortByDate(seq) ==
  IF seq = <<>> THEN <<>>
  ELSE InsertByDate(SortByDate(SubSeq(seq, 1, Len(seq) - 1)), seq[Len(seq)])

\* comparisonData.findIndex(d => d.isCurrentActivity)
findIndex(data) ==
  IF \E i \in 1..Len(data) : data[i].isCurrentActivity
  THEN (CHOOSE i \in 1..Len(data) :
          /\ data[i].isCurrentActivity
          /\ \A j \in 1..(i - 1) : ~data[j].isCurrentActivity) - 1
  ELSE -1

\* "Your Position": drawn when the effort section is (effortData is not null)
\* and comparisonData is not empty.  (total - rank) / (total - 1) is 0 / 0,
\* NaN, when the subject is alone.
YourPosition(p, data) ==
  IF CurrentEffort(p) = Null \/ Len(data) = 0 THEN Null
  ELSE LET rank == findIndex(data) + 1
           total == Len(data)
       IN [rank |-> rank, total |-> total,
           percentile |-> IF total = 1 THEN "NaN"
                          ELSE RoundDiv((total - rank) * 100, total - 1)]

\* the ActivityDetail page with activity and athlete loaded
CohortPage(activity, birthYear, period) ==
  [fn |-> "cohort", pc |-> "idle", activity |-> activity,
   athlete |-> [id |-> 1, birth_year |-> birthYear], comparisonPeriod |-> period,
   filteredActivities |-> <<>>, k |-> 0, comparisonResults |-> <<>>,
   skipped |-> {}, comparisonData |-> <<>>, position |-> Null]

\* The page shows activity PageId, loaded with or without a heart-rate
\* stream; the user is connected; the other activities are cached as
\* summaries, and the detail of one of them may be cached.
InitCohort ==
  /\ InitService
  /\ Connected
  /\ \E starts \in [CohortIds \ {PageId} -> CandidateStarts] :
       activitiesTbl = {CachedActivity(PageId, SubjectStart)}
                         \cup {CachedActivity(id, starts[id]) : id \in CohortIds \ {PageId}}
  /\ detailsTbl \in {{}, {Spread(RemoteDetail(NumIds + 1), [streams |-> {"time", "heartrate"}])}}
  /\ athleteTbl = {}
  /\ ui = [InitialUi EXCEPT !.isAuthenticated = TRUE]
  /\ bulk = NoBulk
  /\ log = <<>>
  /\ failed = {}
  /\ settingsPage = IdlePage
  /\ \E env \in StreamEnvelopes, birthYear \in {Undefined, 1990}, period \in {"month", "year"} :
       detailPage = CohortPage(Spread(CachedActivity(PageId, SubjectStart),
                                      [streams |-> TransformStreams(env)]),
                               birthYear, period)

\* the end of the loop with page locals p: the subject is pushed when it has
\* an effort, the list is sorted by date and set
ShowComparison(p) ==
  LET currentEffort == CurrentEffort(p)
      results == IF currentEffort # Null
                 THEN Append(p.comparisonResults,
                             ComparisonEntry(p.activity, currentEffort.totalPoints, TRUE))
                 ELSE p.comparisonResults
      data == SortByDate(results)
  IN [p EXCEPT !.pc = "shown", !.comparisonResults = results,
               !.comparisonData = data, !.position = YourPosition(p, data)]

\* the for loop from its test with page locals p
NextCandidate(p) ==
  IF p.k < Len(p.filteredActivities)
  THEN /\ detailPage' = [p EXCEPT !.pc = "candidate"]
       /\ task' = [task EXCEPT ![CohortTask] =
                     [IdleTask EXCEPT !.pc = "detail_get", !.op = "cohort",
                                      !.id = p.filteredActivities[p.k + 1].id]]
  ELSE /\ detailPage' = ShowComparison(p)
       /\ task' = [task EXCEPT ![CohortTask] = IdleTask]

\* the effect calls loadComparisonData: its guard, then getCachedActivities
loadComparisonData ==
  /\ detailPage.fn = "cohort"
  /\ detailPage.pc = "idle"
  /\ detailPage' = [detailPage EXCEPT !.pc = IF detailPage.athlete.birth_year = Undefined
                                            THEN "returned" ELSE "cached_read"]
  /\ UNCHANGED serviceVars

\* getCachedActivities answers: the filter and the first candidate's
\* getActivityDetail, or the outer catch
CachedActivitiesDone(ok) ==
  /\ detailPage.fn = "cohort"
  /\ detailPage.pc = "cached_read"
  /\ IF ok
     THEN NextCandidate([detailPage EXCEPT !.filteredActivities =
            SelectSeq(getCachedActivities(activitiesTbl),
                      LAMBDA act : InPeriod(act, detailPage.activity,
                                            detailPage.comparisonPeriod))])
     ELSE /\ detailPage' = [detailPage EXCEPT !.pc = "failed"]
          /\ UNCHANGED task
  /\ UNCHANGED <<now, dbVars, mem, issued, uiVars, staleSent, settingsPage>>

\* getActivityDetail(act.id) came back to the loop: the entry is pushed when
\* the detail has a heart-rate stream; a detail without one and an exception
\* are passed over; then the next candidate
CandidateDone ==
  /\ detailPage.fn = "cohort"
  /\ detailPage.pc = "candidate"
  /\ task[CohortTask].pc = "done"
  /\ LET l == task[CohortTask]
         act == detailPage.filteredActivities[detailPage.k + 1]
         has == /\ l.result = "returned"
                /\ "streams" \in DOMAIN l.ret
                /\ "heartrate" \in l.ret.streams
                /\ detailPage.athlete.birth_year # Undefined
     IN NextCandidate([detailPage EXCEPT
          !.k = @ + 1,
          !.comparisonResults = IF has
                                THEN Append(@, ComparisonEntry(act, CandidateEffort(act.id), FALSE))
                                ELSE @,
          !.skipped = IF has THEN @ ELSE @ \cup {act.id}])
  /\ UNCHANGED <<now, dbVars, mem, issued, uiVars, staleSent, settingsPage>>

NextCohort ==
  \/ loadComparisonData
  \/ \E ok \in BOOLEAN : CachedActivitiesDone(ok)
  \/ DetailGetDone(CohortTask)
  \/ TokenStep(CohortTask)
  \/ \E ok \in BOOLEAN : DetailFetchDone(CohortTask, ok)
  \/ \E ok \in BOOLEAN, env \in StreamEnvelopes : StreamFetchDone(CohortTask, ok, env)
  \/ DetailPutDone(CohortTask)
  \/ CandidateDone

SpecCohort == InitCohort /\ [][NextCohort]_vars

\* ------------------------------------------------------ the athlete profile
\* the activity page with its athlete state; fetched is history: a getAthlete
\* call stored the profile it fetched
AthletePage == [fn |-> "athlete", athlete |-> Null, fetched |-> FALSE]

\* loadAthlete, or a save handler of the Settings page, calls the service:
\* getAthlete starts with db.athlete.toCollection().first()
CallAthlete(t, op) ==
  /\ task[t].pc \in {"idle", "done"}
  /\ task' = [task EXCEPT ![t] = [IdleTask EXCEPT !.pc = "athlete_first", !.op = op]]
  /\ UNCHANGED <<now, dbVars, mem, issued, uiVars, staleSent, settingsPage, detailPage>>

\* first() answers: the cached athlete is returned, or GET /athlete is made
AthleteFirstDone(t) ==
  /\ task[t].pc = "athlete_first"
  /\ LET cachedAthlete == First(athleteTbl)
     IN Settle(t, IF cachedAthlete # Null THEN AthleteReturn(task[t], cachedAthlete, TRUE)
                  ELSE makeAuthenticatedRequest(task[t], "athlete"))
  /\ UNCHANGED <<now, dbVars, mem, issued, settingsPage, detailPage>>

\* GET /athlete answers: db.athlete.clear() follows; a response that is not
\* ok, or a failed request, ends in null
AthleteFetchDone(t, ok) ==
  /\ task[t].pc = "athlete_fetch"
  /\ Settle(t, IF ok THEN [task[t] EXCEPT !.pc = "athlete_clear", !.evt = EvtNone]
               ELSE AthleteReturn(task[t], Null, FALSE))
  /\ UNCHANGED <<now, dbVars, mem, issued, settingsPage, detailPage>>

\* db.athlete.clear() is done, db.athlete.add(athleteData) follows; or it
\* failed and the catch returns null
AthleteClearDone(t, ok) ==
  /\ task[t].pc = "athlete_clear"
  /\ athleteTbl' = IF ok THEN {} ELSE athleteTbl
  /\ Settle(t, IF ok THEN [task[t] EXCEPT !.pc = "athlete_add"]
               ELSE AthleteReturn(task[t], Null, FALSE))
  /\ UNCHANGED <<now, settingsTbl, nextId, activitiesTbl, detailsTbl, mem, issued,
                 settingsPage, detailPage>>

\* db.athlete.add(athleteData) is done and the profile returned; add fails
\* when the key is in the table already, or with the storage
AthleteAddDone(t, ok) ==
  /\ task[t].pc = "athlete_add"
  /\ LET added == ok /\ ~\E r \in athleteTbl : r.id = AthleteRow.id
     IN /\ athleteTbl' = IF added THEN athleteTbl \cup {AthleteRow} ELSE athleteTbl
        /\ detailPage' = [detailPage EXCEPT !.fetched = @ \/ added]
        /\ Settle(t, AthleteReturn(task[t], IF added THEN AthleteRow ELSE Null, FALSE))
  /\ UNCHANGED <<now, settingsTbl, nextId, activitiesTbl, detailsTbl, mem, issued,
                 settingsPage>>

\* the field updateAthleteBirthYear or updateAthleteLLMPrefix writes
AthleteChanges(op) ==
  IF op = "birthYear" THEN [birth_year |-> 1990] ELSE [llm_summary_prefix |-> 1]

\* db.athlete.update(athlete.id, changes) is done; a failure is rethrown
AthleteUpdateDone(t, ok) ==
  /\ task[t].pc = "athlete_update"
  /\ athleteTbl' = IF ok THEN TableUpdate(athleteTbl, task[t].ret.id,
                                          AthleteChanges(task[t].op))
                   ELSE athleteTbl
  /\ Settle(t, IF ok THEN Return(task[t], Null, FALSE) ELSE Raise(task[t]))
  /\ UNCHANGED <<now, settingsTbl, nextId, activitiesTbl, detailsTbl, mem, issued,
                 settingsPage, detailPage>>

\* loadAthlete after getAthlete came back: setAthlete(athleteData)
AthleteLoaded ==
  /\ task[AthleteLoader].pc = "done"
  /\ detailPage' = [detailPage EXCEPT !.athlete = task[AthleteLoader].ret]
  /\ task' = [task EXCEPT ![AthleteLoader] = IdleTask]
  /\ UNCHANGED <<now, dbVars, mem, issued, uiVars, staleSent, settingsPage>>

\* backups the user can pick: one written before the profile was cached and
\* one written after
AthleteFiles ==
  {[version |-> ExportVersion, timestamp |-> 1, settings |-> <<>>, activities |-> <<>>,
    activityDetails |-> <<>>, athlete |-> rows] : rows \in {<<>>, <<AthleteRow>>}}

\* Nothing of the athlete is cached and the user is connected with a token
\* that is not about to expire; the activity page loads the athlete, the
\* Settings page saves the birth year or the prefix, logs out or imports.
InitAthlete ==
  /\ InitService
  /\ \E r \in settingsTbl : ~TokenExpired(r, now) /\ Get(r, "accessToken") # Undefined
  /\ activitiesTbl = {}
  /\ detailsTbl = {}
  /\ athleteTbl = {}
  /\ ui = [InitialUi EXCEPT !.isAuthenticated = Connected]
  /\ bulk = NoBulk
  /\ log = <<>>
  /\ failed = {}
  /\ settingsPage = IdlePage
  /\ detailPage = AthletePage

NextAthlete ==
  \/ CallAthlete(AthleteLoader, "getAthlete")
  \/ \E op \in {"birthYear", "llmPrefix"} : CallAthlete(AthleteSaver, op)
  \/ \E t \in AthleteTasks :
       \/ AthleteFirstDone(t)
       \/ EvtReadDone(t)
       \/ \E ok \in BOOLEAN : AthleteFetchDone(t, ok)
       \/ \E ok \in BOOLEAN : AthleteClearDone(t, ok)
       \/ \E ok \in BOOLEAN : AthleteAddDone(t, ok)
       \/ \E ok \in BOOLEAN : AthleteUpdateDone(t, ok)
  \/ AthleteLoaded
  \/ Logout
  \/ \E text \in AthleteFiles : handleImportData(text, FALSE)
  \/ \E ok \in BOOLEAN : ImportClearDone(ok)
  \/ \E ok \in BOOLEAN : ImportAddDone(ok)

SpecAthlete == InitAthlete /\ [][NextAthlete]_vars

\* ------------------------------------------- loadActivities, pagination
\* the loads that reset the pagination: the mount-time load of
\* checkAuthAndLoadActivities and the load that ends handleOAuthCallback
ResetTasks == {ListTask, OAuthTask}
LoadTasks == ResetTasks \cup {MoreTask}

LoadKind(t) == IF t \in ResetTasks THEN "reset" ELSE "more"

\* the pagination state of the Activities page, mounted and loading
PagesUi ==
  Spread(InitialUi, [isAuthenticated |-> TRUE, loading |-> TRUE, loadingMore |-> FALSE,
                     currentPage |-> 1, hasMoreData |-> TRUE])

\* the ids of a list of activities, and of the cached activities, latest
\* first (the provider numbers the activities in the order of their start)
IdsOf(activities) == [i \in DOMAIN activities |-> activities[i].id]
CachedIds(tbl) ==
  LET rows == toArray(tbl)
  IN [i \in 1..Len(rows) |-> rows[Len(rows) + 1 - i].id]

\* setActivities and the filter effect that follows it (no filter is set)
ShowActivities(u, ids) == [u EXCEPT !.activities = ids, !.filteredActivities = ids]

\* The Activities page is mounted, connected with a token that is not about
\* to expire, nothing cached; the address may carry an authorization code
\* that handleOAuthCallback has exchanged.
InitPages ==
  /\ InitService
  /\ \E r \in settingsTbl : ~TokenExpired(r, now) /\ Get(r, "accessToken") # Undefined
  /\ activitiesTbl = {}
  /\ detailsTbl = {}
  /\ athleteTbl = {}
  /\ ui = PagesUi
  /\ bulk = NoBulk
  /\ log = <<>>
  /\ failed = {}
  /\ settingsPage = IdlePage
  /\ detailPage = NoAnalysis

\* loadActivities(true) is called: the pagination is reset and
\* getCachedActivities is awaited
loadActivitiesReset(t) ==
  /\ t \in ResetTasks
  /\ task[t].pc = "idle"
  /\ ui' = [ui EXCEPT !.currentPage = 1, !.hasMoreData = TRUE]
  /\ task' = [task EXCEPT ![t] = [IdleTask EXCEPT !.pc = "cached_read", !.op = "list"]]
  /\ UNCHANGED <<now, dbVars, mem, issued, bulk, log, failed, staleSent, settingsPage,
                 detailPage>>

\* getCachedActivities answers: the cached list is shown and
\* getActivities(1, 30) is called
CachedReadDone(t) ==
  /\ task[t].pc = "cached_read"
  /\ ui' = ShowActivities(ui, CachedIds(activitiesTbl))
  /\ log' = Append(log, <<"request", "reset", 1>>)
  /\ task' = [task EXCEPT ![t] = makeAuthenticatedRequest(
                [IdleTask EXCEPT !.op = "list", !.page = 1, !.perPage = PerPage], "list")]
  /\ UNCHANGED <<now, dbVars, mem, issued, bulk, failed, staleSent, settingsPage,
                 detailPage>>

\* the "Load More Activities" button, drawn when the page is not loading and
\* has activities and more data: loadMoreActivities' guard, then
\* loadActivities(false) calls getActivities(currentPage, 30)
loadMoreActivities ==
  /\ ~ui.loading /\ ui.isAuthenticated /\ ui.hasMoreData /\ Len(ui.filteredActivities) > 0
  /\ ~ui.loadingMore
  /\ Cardinality({i \in 1..Len(log) : log[i][1] = "request" /\ log[i][2] = "more"}) < MaxMore
  /\ ui' = [ui EXCEPT !.loadingMore = TRUE]
  /\ log' = Append(log, <<"request", "more", ui.currentPage>>)
  /\ task' = [task EXCEPT ![MoreTask] = makeAuthenticatedRequest(
                [IdleTask EXCEPT !.op = "list", !.page = ui.currentPage,
                                 !.perPage = PerPage], "list")]
  /\ UNCHANGED <<now, dbVars, mem, issued, bulk, failed, staleSent, settingsPage,
                 detailPage>>

\* getActivities came back to loadActivities: the page is shown or appended
\* and the page number goes up unless the page was short; an exception is
\* shown as an error; then the finally block of the caller
PageLoaded(t) ==
  /\ t \in LoadTasks
  /\ task[t].pc = "done"
  /\ LET l == task[t]
         fresh == IdsOf(l.ret)
         u1 == IF l.result # "returned" THEN ui
               ELSE LET u == ShowActivities(ui, IF t \in ResetTasks THEN fresh
                                                ELSE ui.activities \o fresh)
                    IN IF Len(fresh) < PerPage
                       THEN [u EXCEPT !.hasMoreData = FALSE]
                       ELSE [u EXCEPT !.currentPage = @ + 1]
     IN /\ ui' = IF t \in ResetTasks THEN [u1 EXCEPT !.loading = FALSE]
                 ELSE [u1 EXCEPT !.loadingMore = FALSE]
        /\ log' = Append(log, <<IF l.result = "returned" THEN "loaded" ELSE "failed",
                                LoadKind(t), l.page>>)
        /\ task' = [task EXCEPT ![t] = IF t \in ResetTasks
                                       THEN [IdleTask EXCEPT !.pc = "ended"]
                                       ELSE IdleTask]
  /\ UNCHANGED <<now, dbVars, mem, issued, bulk, failed, staleSent, settingsPage,
                 detailPage>>

NextPages ==
  \/ \E t \in ResetTasks : loadActivitiesReset(t)
  \/ \E t \in ResetTasks : CachedReadDone(t)
  \/ loadMoreActivities
  \/ \E t \in LoadTasks :
       \/ EvtReadDone(t)
       \/ \E ok \in BOOLEAN : ListFetchDone(t, ok)
       \/ ListPutDone(t)
       \/ PageLoaded(t)

SpecPages == InitPages /\ [][NextPages]_vars

\* =================================================================== claims
\* what the claims call a detail with its stream bundle present
HasStreamBundle(row) == row # Null /\ "streams" \in DOMAIN row

\* ensureValidToken has just returned a token to task t
TokenReturned(t) == task[t].pc \in {"detail_fetch", "stream_fetch", "list_fetch"}

\* C1: whenever ensureValidToken returns a token for stored credentials that
\* have an expiry: if the expiry was less than 5 minutes after now, the call
\* has performed a refresh exchange and returns the token that exchange
\* issued; if it was more than 5 minutes after now, the call returns the
\* stored access token and has sent no refresh request.
C1_ValidTokenPolicy ==
  \A t \in Tasks :
    (TokenReturned(t) /\ task[t].evt.hadExpiry) =>
      /\ task[t].evt.near =>
           /\ task[t].evt.refreshed
           /\ task[t].evt.returned = task[t].evt.issuedTok
           /\ task[t].evt.returned # task[t].evt.stored
      /\ task[t].evt.far =>
           /\ task[t].evt.returned = task[t].evt.stored
           /\ task[t].evt.requests = 0
           /\ ~task[t].evt.refreshed

\* a near-expiry token was refreshed and the new token returned, while the
\* other caller got a stored token that was far from expiry
C1_Witness ==
  \E t \in Tasks :
    /\ TokenReturned(t) /\ task[t].evt.near /\ task[t].evt.refreshed
    /\ task[t].evt.returned = task[t].evt.issuedTok

C1_WitnessFar ==
  \E t \in Tasks :
    /\ TokenReturned(t) /\ task[t].evt.far /\ task[t].evt.requests = 0
    /\ task[t].evt.returned = task[t].evt.stored

\* C2: token refresh is single-flight: at most one refresh request is in
\* flight at any time (later callers wait for the one in progress), and no
\* refresh request is sent carrying a refresh token that a completed refresh
\* has already replaced.
C2_SingleFlight ==
  /\ Cardinality({t \in Tasks : task[t].pc = "refresh_fetch"}) <= 1
  /\ ~staleSent

\* C5: when the cached detail of id has its stream bundle, getActivityDetail(id)
\* returns that cached record, sends no remote request and no token refresh,
\* and leaves every table (and the credentials) unchanged.
C5_CachedCompleteStep ==
  \A t \in Tasks :
    (/\ task[t].pc = "detail_get"
     /\ task'[t] # task[t]
     /\ HasStreamBundle(TableGet(detailsTbl, task[t].id))) =>
      /\ task'[t].pc = "done"
      /\ task'[t].result = "returned"
      /\ task'[t].ret = TableGet(detailsTbl, task[t].id)
      /\ task'[t].nDetailReq = 0 /\ task'[t].nStreamReq = 0 /\ task'[t].nRefreshReq = 0
      /\ UNCHANGED <<dbVars, mem, issued>>

C5_CachedComplete == [][C5_CachedCompleteStep]_vars

C5_Witness ==
  \E t \in Tasks :
    /\ task[t].pc = "done" /\ task[t].cachedAtStart = "complete"
    /\ task[t].result = "returned" /\ HasStreamBundle(task[t].ret)

\* a finished getActivityDetail call that found no complete detail in the cache
Uncached(t) == task[t].pc = "done" /\ task[t].cachedAtStart \in {"absent", "partial"}

\* C6 as stated: when no detail is cached for id, or the cached one has no
\* stream bundle, getActivityDetail(id) does not return the cached record: it
\* issues a remote detail fetch followed by a stream fetch, on every call.
C6_AlwaysRefetches ==
  \A t \in Tasks :
    Uncached(t) =>
      /\ ~task[t].fromCache
      /\ task[t].nDetailReq = 1
      /\ task[t].nStreamReq = 1

\* C6 amended: such a call never returns the cached record.  It first asks for
\* a valid token: without one it raises and sends nothing.  With one it sends
\* exactly one detail fetch; if that fails the call raises and sends no stream
\* fetch; if it succeeds the call attempts the stream fetch, which is sent
\* unless no valid token can be obtained for it, and returns the fetched
\* record.  This holds of every call, so it repeats for as long as the cached
\* detail stays without streams.
C6_RefetchUnlessNoToken ==
  \A t \in Tasks :
    Uncached(t) =>
      /\ ~task[t].fromCache
      /\ task[t].nDetailReq = (IF task[t].authFailed = "detail" THEN 0 ELSE 1)
      /\ task[t].nStreamReq =
           (IF task[t].detailOutcome = "ok" /\ task[t].authFailed # "streams" THEN 1 ELSE 0)
      /\ task[t].result = (IF task[t].detailOutcome = "ok" THEN "returned" ELSE "raised")
      /\ task[t].result = "returned" => task[t].ret.id = task[t].id

C6_Witness ==
  \E t \in Tasks :
    /\ Uncached(t) /\ task[t].cachedAtStart = "partial"
    /\ task[t].nDetailReq = 1 /\ task[t].nStreamReq = 1
    /\ task[t].result = "returned" /\ ~HasStreamBundle(task[t].ret)

\* the stream fetch of task t's call failed: its request failed, or no valid
\* token could be obtained for it
StreamFetchFailed(l) == l.streamOutcome = "failed" \/ l.authFailed = "streams"

\* C7: in getActivityDetail, when the detail fetch succeeds and the stream
\* fetch fails, the call does not raise: the detail is written to the
\* ActivityDetail table without a stream bundle and returned without streams;
\* when the detail fetch fails, the call raises and writes nothing.
C7_DegradeStep ==
  \A t \in Tasks :
    /\ (task[t].pc # "done" /\ task'[t].pc = "done"
        /\ task'[t].detailOutcome = "ok" /\ StreamFetchFailed(task'[t])) =>
         /\ task'[t].result = "returned"
         /\ ~HasStreamBundle(task'[t].ret)
         /\ task'[t].ret = RemoteDetail(task[t].id)
         /\ TableGet(detailsTbl', task[t].id) = task'[t].ret
    /\ (task[t].pc = "detail_fetch" /\ task'[t].detailOutcome = "failed") =>
         /\ task'[t].pc = "done"
         /\ task'[t].result = "raised"
         /\ UNCHANGED dbVars
    /\ (task[t].pc \in {"detail_fetch", "stream_fetch"} /\ task'[t] # task[t]
        /\ StreamFetchFailed(task'[t])) =>
         task'[t].pc = "detail_put"

C7_Degrade == [][C7_DegradeStep]_vars

C7_Witness ==
  \E t \in Tasks :
    /\ task[t].pc = "done" /\ task[t].detailOutcome = "ok"
    /\ task[t].streamOutcome = "failed"
    /\ task[t].result = "returned" /\ task[t].wrote
    /\ TableGet(detailsTbl, task[t].id) = task[t].ret
    /\ ~HasStreamBundle(task[t].ret)

\* the events fetchAllStreamData produces for list, in the order of the code:
\* for each item, its progress report, the start of its fetch, the end of it
RECURSIVE ExpectedLog(_, _)
ExpectedLog(list, k) ==
  IF k > Len(list) THEN <<>>
  ELSE << <<"progress", k>>, <<"start", list[k]>>, <<"end", list[k]>> >>
       \o ExpectedLog(list, k + 1)

IsPrefix(a, b) == Len(a) <= Len(b) /\ SubSeq(b, 1, Len(a)) = a

CountIn(lg, kind, upto) == Cardinality({q \in 1..upto : lg[q][1] = kind})

BulkFinished == bulk.alert # Null /\ ~ui.loadingStreams

\* C3: a bulk backfill over N items, F being the items whose detail fetch
\* fails (the request fails, or no valid token can be obtained for it),
\* processes all N items without stopping at a failure and ends with
\* errorCount = |F| and successCount = N - |F|.
C3_BulkCounts ==
  /\ bulk.errorCount = Cardinality(failed)
  /\ bulk.successCount + bulk.errorCount = CountIn(log, "end", Len(log))
  /\ BulkFinished =>
       /\ CountIn(log, "start", Len(log)) = Len(bulk.list)
       /\ bulk.alert.errorCount = Cardinality(failed)
       /\ bulk.alert.successCount = Len(bulk.list) - Cardinality(failed)

C3_Witness ==
  /\ BulkFinished /\ Len(bulk.list) >= 2
  /\ 1 \in failed /\ bulk.alert.successCount >= 1

\* C4 as stated: the progress report with current = i is issued after item i's
\* fetch has finished and before item i+1's fetch starts.
C4_ProgressAfterItem ==
  \A p \in DOMAIN log :
    log[p][1] = "progress" =>
      /\ CountIn(log, "end", p) = log[p][2]
      /\ CountIn(log, "start", p) = log[p][2]

\* C4 amended: items are fetched in list order and the progress report fires
\* exactly N times with current = 1, 2, ..., N in that order, the report with
\* current = i being issued before item i's fetch starts and after item i-1's
\* fetch has finished (successfully or not).
C4_ProgressBeforeItem ==
  /\ IsPrefix(log, ExpectedLog(bulk.list, 1))
  /\ BulkFinished => log = ExpectedLog(bulk.list, 1)
  /\ ui.loadingStreams =>
       ui.streamProgress = [current |-> CountIn(log, "progress", Len(log)),
                            total |-> Len(bulk.list)]

C4_Witness ==
  /\ BulkFinished /\ Len(bulk.list) >= 2 /\ failed # {}
  /\ log = ExpectedLog(bulk.list, 1)

\* ---------------------------------------------------------------- import
\* an importAll call has come back to the Settings page
ImportReturned == settingsPage.pc = "import_done"

\* the document the finished import was given lacks version or timestamp
LacksField ==
  "version" \notin DOMAIN settingsPage.data \/ "timestamp" \notin DOMAIN settingsPage.data

AllEmpty == \A k \in DOMAIN TableNames : TableOf(TableNames[k]) = {}

\* every table holds exactly the rows the document lists for it
HoldsDocument(data) ==
  \A k \in DOMAIN TableNames :
    LET rows == Rows(data, TableNames[k])
    IN TableOf(TableNames[k]) = {rows[i] : i \in DOMAIN rows}

\* C8: an importAll of a document without the version field or without the
\* timestamp field ends with the error raised, its clear stage never started,
\* and the four tables hold exactly the rows they held when it was called.
C8_RejectedBeforeClear ==
  (ImportReturned /\ LacksField) =>
    /\ settingsPage.result = "raised"
    /\ settingsPage.cleared = "no"
    /\ Contents = settingsPage.before

\* a document without version was rejected over a store that holds rows
C8_Witness ==
  /\ ImportReturned
  /\ "version" \notin DOMAIN settingsPage.data
  /\ settingsPage.result = "raised"
  /\ ~AllEmpty

\* C9: once an importAll of a document that passes validation has returned,
\* normally or with an error, either all four tables hold exactly the
\* document's rows or all four tables are empty.
C9_ReplacedOrEmpty ==
  (ImportReturned /\ Valid(settingsPage.data)) =>
    HoldsDocument(settingsPage.data) \/ AllEmpty

\* reading field f of rows r and q gives the same value (undefined when the
\* row has no such field)
SameField(r, q, f) ==
  IF f \in DOMAIN r /\ f \in DOMAIN q THEN r[f] = q[f]
  ELSE IF f \in DOMAIN r THEN f # "streams" /\ r[f] = Undefined
  ELSE f # "streams" /\ q[f] = Undefined

SameRecord(r, q) == \A f \in DOMAIN r \cup DOMAIN q : SameField(r, q, f)

\* the same number of rows, and the same records
SameTable(a, b) ==
  /\ Cardinality(a) = Cardinality(b)
  /\ \A r \in a : \E q \in b : SameRecord(r, q)
  /\ \A q \in b : \E r \in a : SameRecord(r, q)

\* C10: when the backup exported from non-empty contents S has been imported,
\* over S or over any other contents, and the import returned normally, every
\* table has the row count it had in S and the same records with the same
\* field values.
C10_RoundTrip ==
  (/\ ImportReturned
   /\ settingsPage.roundTrip
   /\ settingsPage.result = "imported"
   /\ \E k \in DOMAIN TableNames : settingsPage.snapshot[k] # {})
  => \A k \in DOMAIN TableNames :
       SameTable(TableOf(TableNames[k]), settingsPage.snapshot[k])

\* ----------------------------------------------------------- activities
\* a getActivities call of task t has ended
ListEnded(t) == task[t].pc = "done" /\ task[t].op = "list"

\* C11: a getActivities(page, perPage) call that returned has sent exactly one
\* list request and returns exactly the remote page, and the activities table
\* then holds, for every returned activity, one record under its identifier,
\* equal to the returned value; a call whose list request got a non-success
\* status has raised after that one request.
C11_ListPage ==
  LET l == task[ListTask]
  IN ListEnded(ListTask) =>
       /\ l.result = "returned" =>
            /\ l.nListReq = 1
            /\ l.ret = RemotePage(l.page, l.perPage)
            /\ \A i \in DOMAIN l.ret :
                 {r \in activitiesTbl : r.id = l.ret[i].id} = {l.ret[i]}
       /\ l.listOutcome = "failed" => l.result = "raised" /\ l.nListReq = 1

\* a page was returned whose first activity replaced an older record, while
\* an older record of another activity is still in the table
C11_Witness ==
  /\ ListEnded(ListTask)
  /\ task[ListTask].result = "returned"
  /\ Len(task[ListTask].ret) >= 1
  /\ task[ListTask].wrote
  /\ \E r \in activitiesTbl : "flagged" \in DOMAIN r

C13_ExpiryMonotoneStep ==
  \A r \in settingsTbl : \A q \in settingsTbl' :
    (r.id = q.id /\ Get(r, "expiresAt") # Undefined /\ Get(q, "expiresAt") # Undefined)
      => q.expiresAt >= r.expiresAt

C13_ExpiryMonotone == [][C13_ExpiryMonotoneStep]_vars

\* C14: in every reachable state the Credentials (settings) table holds at
\* most one record.
C14_AtMostOneRecord == Cardinality(settingsTbl) <= 1

\* what getSettings hands to the ensureValidToken that takes its next step
C15_Seen(t) == IF task[t].pc = "evt_read" THEN First(settingsTbl) ELSE mem

\* C15: a step in which the token endpoint answers the code exchange or the
\* refresh without issuing tokens ends the operation with an exception and
\* leaves the settings table and the in-memory copy as they were; and an
\* ensureValidToken that finds the access token inside the buffer while the
\* refresh token or the client secret is lacking ends with an exception, and
\* no refresh request is ever in flight for credentials that lack a field.
C15_FailureStep ==
  /\ \A t \in AuthTasks :
       (/\ task[t].pc \in {"refresh_fetch", "exchange_fetch"}
        /\ task'[t] # task[t]
        /\ issued' = issued
        /\ settingsPage' = settingsPage)
       => /\ task'[t].pc = "done"
          /\ task'[t].result = "raised"
          /\ settingsTbl' = settingsTbl
          /\ mem' = mem
  /\ LET s == C15_Seen(ListTask)
     IN (/\ task[ListTask].pc \in {"idle", "done", "evt_read"}
         /\ task'[ListTask] # task[ListTask]
         /\ settingsPage' = settingsPage
         /\ s # Null
         /\ Get(s, "accessToken") # Undefined
         /\ TokenExpired(s, now)
         /\ (Get(s, "refreshToken") = Undefined \/ Get(s, "clientSecret") = Undefined))
        => /\ task'[ListTask].pc = "done"
           /\ task'[ListTask].result = "raised"
           /\ task'[ListTask].nRefreshReq = 0
           /\ settingsTbl' = settingsTbl
  /\ \A t \in AuthTasks :
       task'[t].pc = "refresh_fetch" => ~MissingCredentials(task'[t].settings)

C15_FailureLeavesCredentials == [][C15_FailureStep]_vars

\* the code exchange was refused and raised, and a list load raised without a
\* refresh request over credentials that lack the client secret and whose
\* access token is inside the buffer
C15_Witness ==
  /\ task[OAuthTask].pc = "done" /\ task[OAuthTask].result = "raised"
  /\ task[ListTask].pc = "done" /\ task[ListTask].result = "raised"
  /\ task[ListTask].authFailed = "list" /\ task[ListTask].nRefreshReq = 0
  /\ mem # Null /\ Get(mem, "accessToken") # Undefined
  /\ Get(mem, "clientSecret") = Undefined /\ TokenExpired(mem, now)

\* record r holds the tokens and the expiry that saveSettings was given
HoldsTokens(r, partial) ==
  /\ Get(r, "accessToken") = partial.accessToken
  /\ Get(r, "refreshToken") = partial.refreshToken
  /\ Get(r, "expiresAt") = partial.expiresAt

\* the fields a token answer does not carry
KeptFields(op) ==
  IF op = "exchange" THEN {"clientId", "clientSecret"}
  ELSE {"clientId", "clientSecret", "scope"}

\* C16: the step that ends the saveSettings of a successful code exchange or
\* refresh leaves a stored record and an in-memory copy that both hold the
\* access token, the refresh token and the expiry of that answer, and the
\* client id, the client secret and (for a refresh) the scope of the stored
\* record and of the in-memory copy are the ones they had before the step.
C16_WriteThroughStep ==
  \A t \in AuthTasks :
    (/\ task[t].pc = "save_write"
     /\ task'[t].pc # "save_write"
     /\ settingsPage' = settingsPage)
    => /\ mem' # Null
       /\ HoldsTokens(mem', task[t].partial)
       /\ \E r \in settingsTbl' : HoldsTokens(r, task[t].partial)
       /\ \A f \in KeptFields(task[t].op) :
            /\ mem # Null => Get(mem', f) = Get(mem, f)
            /\ \A r \in settingsTbl : \E q \in settingsTbl' :
                 q.id = r.id /\ Get(q, f) = Get(r, f)

C16_WriteThrough == [][C16_WriteThroughStep]_vars

\* C17: once logout has completed, no Credentials record is stored and the
\* in-memory copy is empty, also when a token refresh that started before the
\* logout is answered after it.
C17_LoggedOutStaysEmpty ==
  settingsPage.pc = "loggedOut" => (settingsTbl = {} /\ mem = Null)

\* requests of the bulk backfill that were started and have not ended
InFlight == CountIn(log, "start", Len(log)) - CountIn(log, "end", Len(log))

\* C18: while a bulk backfill is running at most one of its requests is in
\* flight, and no step taken while it is running (a second trigger included)
\* starts the loop again: the list stays, the index does not go back and the
\* log of requests only grows.
C18_SerializedStep ==
  /\ InFlight \in {0, 1}
  /\ (ui.loadingStreams /\ ui'.loadingStreams) =>
       /\ bulk'.list = bulk.list
       /\ bulk'.i >= bulk.i
       /\ IsPrefix(log, log')

C19_DelayStep ==
  (Len(log') > Len(log) /\ log'[Len(log')][1] = "start" /\ bulk'.i >= 1)
    => task[BulkTask].pc = "bulk_delay"

C19_DelayBetweenItems == [][C19_DelayStep]_vars

\* C20: a storage failure inside a store operation is raised to the caller:
\* a resetAll whose database delete failed does not come back as a normal
\* return.
C20_FailureRaised ==
  (settingsPage.pc = "reset_done" /\ settingsPage.cleared = "failed")
    => settingsPage.result = "raised"

\* C21: the StreamData that getActivityStreams returns holds a kind if and
\* only if the kind is one of the enumerated stream kinds and the response
\* carries a payload for it.
C21_OnlyEnumeratedKinds ==
  (detailPage.fn = "getActivityStreams" /\ detailPage.done) =>
    \A k \in StreamTypes \cup DOMAIN detailPage.body :
      k \in detailPage.streams <=>
        (k \in StreamTypes /\ k \in DOMAIN detailPage.body /\ detailPage.body[k].hasData)

\* a sample has been classified
Classified == detailPage.fn = "zones" /\ detailPage.done

\* the lowest zone whose upper bound is at least h, 0 when there is none
LowestZoneOver(h, zones) ==
  IF \E z \in 1..5 : zones[z].max >= h
  THEN CHOOSE z \in 1..5 : zones[z].max >= h /\ \A y \in 1..(z - 1) : zones[y].max < h
  ELSE 0

\* maxHR is 220 - (currentYear - birthYear), the five upper bounds do not
\* decrease and the fifth is maxHR
BoundsInOrder ==
  /\ detailPage.maxHR = 220 - (CurrentYear - detailPage.birthYear)
  /\ \A z \in 1..4 : detailPage.zones[z].max <= detailPage.zones[z + 1].max
  /\ detailPage.zones[5].max = detailPage.maxHR

\* C22 as stated: the upper bounds are non-decreasing with the fifth equal to
\* maxHR, every positive heart rate is put into the lowest zone whose upper
\* bound is at least that heart rate, and a heart rate <= 0 into no zone.
C22_LowestZoneOver ==
  Classified =>
    /\ BoundsInOrder
    /\ detailPage.hr > 0 =>
         /\ detailPage.zone \in 1..5
         /\ detailPage.zone = LowestZoneOver(detailPage.hr, detailPage.zones)
    /\ detailPage.hr <= 0 => detailPage.zone = 0

\* C22 amended: as stated for heart rates up to maxHR; a heart rate above
\* maxHR, which no upper bound reaches, is put into zone 5.
C22_LowestZoneOrFifth ==
  Classified =>
    /\ BoundsInOrder
    /\ (detailPage.hr > 0 /\ detailPage.hr <= detailPage.maxHR) =>
         detailPage.zone = LowestZoneOver(detailPage.hr, detailPage.zones)
    /\ detailPage.hr > detailPage.maxHR => detailPage.zone = 5
    /\ detailPage.hr <= 0 => detailPage.zone = 0

\* a heart rate above maxHR was classified, into zone 5
C22_Witness ==
  /\ Classified
  /\ detailPage.hr > detailPage.maxHR
  /\ detailPage.zone = 5

\* the zones of the athlete whose activity the page holds
PageZones == getHeartRateZones(calculateMaxHeartRate(detailPage.birthYear))

\* the samples with a positive heart rate that the if chain puts into zone z
SamplesIn(z) ==
  {i \in DOMAIN detailPage.heartrate :
     detailPage.heartrate[i] > 0 /\ ZoneOf(detailPage.heartrate[i], PageZones) = z}

\* time[i+1] - time[i], and 1 for the final sample
IncrementOf(i) ==
  IF i = Len(detailPage.heartrate) /\ i = Len(detailPage.time) THEN 1
  ELSE detailPage.time[i + 1] - detailPage.time[i]

RECURSIVE SumIncrements(_)
SumIncrements(S) ==
  IF S = {} THEN 0
  ELSE LET i == CHOOSE j \in S : TRUE
       IN IncrementOf(i) + SumIncrements(S \ {i})

\* the time stream covers the heart-rate stream
TimeAligned == Len(detailPage.time) >= Len(detailPage.heartrate)

\* C23: over a heart-rate stream and a time stream aligned with it,
\* totalEffortPoints is the sum over the samples with positive heart rate of
\* the sample's time increment times the weight 1, 2, 3, 5, 8 of its zone,
\* the increment being time[i+1] - time[i], and 1 for the final sample.
C23_EffortIsWeightedSum ==
  (detailPage.fn = "effort" /\ detailPage.effort # Null /\ TimeAligned) =>
    detailPage.effort.totalPoints =
      1 * SumIncrements(SamplesIn(1)) + 2 * SumIncrements(SamplesIn(2))
      + 3 * SumIncrements(SamplesIn(3)) + 5 * SumIncrements(SamplesIn(4))
      + 8 * SumIncrements(SamplesIn(5))

\* the effort of [100, 160] at times [0, 30] with maxHR 185 was computed:
\* 30 s in zone 1 and the final second in zone 4
C23_Witness ==
  /\ detailPage.fn = "effort" /\ detailPage.effort # Null
  /\ detailPage.birthYear = 1990
  /\ detailPage.heartrate = <<100, 160>> /\ detailPage.time = <<0, 30>>
  /\ detailPage.effort.totalPoints = 35

\* the seconds of all samples with positive heart rate
ClassifiedSeconds ==
  SumIncrements(SamplesIn(1) \cup SamplesIn(2) \cup SamplesIn(3)
                \cup SamplesIn(4) \cup SamplesIn(5))

\* C24: every entry of the zone distribution gives its zone's seconds as a
\* share of the total classified seconds, so that the unrounded percentages
\* sum to 100, and the zones left out are exactly the zones with zero time.
C24_ShareOfClassified ==
  (detailPage.fn = "effort" /\ detailPage.distribution # Null /\ TimeAligned) =>
    /\ \A e \in detailPage.distribution.entries :
         /\ e.seconds = SumIncrements(SamplesIn(e.zone))
         /\ e.of = ClassifiedSeconds
    /\ {e.zone : e \in detailPage.distribution.entries}
         = {z \in 1..5 : SumIncrements(SamplesIn(z)) > 0}

\* the entries of the shown comparison list that lie before the subject when
\* the list is put in ascending order of effort
LowerEfforts ==
  {i \in 1..Len(detailPage.comparisonData) :
     /\ ~detailPage.comparisonData[i].isCurrentActivity
     /\ detailPage.comparisonData[i].effort < SubjectEffort}

\* C25: in the shown position the rank is the subject's 1-based place in the
\* comparison list in ascending order of effort, the percentile is
\* round((total - rank) / (total - 1) * 100), and with one member in the list
\* no percentile is computed.
C25_RankByEffort ==
  (detailPage.fn = "cohort" /\ detailPage.pc = "shown" /\ detailPage.position # Null)
    => LET pos == detailPage.position
       IN /\ pos.total = Len(detailPage.comparisonData)
          /\ pos.rank = Cardinality(LowerEfforts) + 1
          /\ IF pos.total = 1
             THEN "percentile" \notin DOMAIN pos
             ELSE pos.percentile = RoundDiv((pos.total - pos.rank) * 100, pos.total - 1)

\* the cached activities of the subject's period other than the subject
CohortCandidates ==
  {act \in activitiesTbl :
     /\ act.id # detailPage.activity.id
     /\ act.start_date_local.year = SubjectStart.year
     /\ detailPage.comparisonPeriod = "month"
          => act.start_date_local.month = SubjectStart.month}

\* the candidates whose detail could be loaded with a heart-rate stream: the
\* ones for which the store now holds such a detail
Survivors ==
  {act \in CohortCandidates :
     \E d \in detailsTbl : /\ d.id = act.id
                           /\ "streams" \in DOMAIN d
                           /\ "heartrate" \in d.streams}

EntriesOf(id, current) ==
  {i \in 1..Len(detailPage.comparisonData) :
     /\ detailPage.comparisonData[i].id = id
     /\ detailPage.comparisonData[i].isCurrentActivity = current}

\* what the claim says of the candidates: the loop went over exactly the
\* candidates of the period, and the list has each survivor once and nothing
\* of a skipped candidate
CandidatesHandled ==
  /\ {detailPage.filteredActivities[i] : i \in 1..Len(detailPage.filteredActivities)}
       = CohortCandidates
  /\ Len(detailPage.filteredActivities) = Cardinality(CohortCandidates)
  /\ detailPage.k = Len(detailPage.filteredActivities)
  /\ \A act \in CohortCandidates :
       /\ Cardinality(EntriesOf(act.id, FALSE)) = (IF act \in Survivors THEN 1 ELSE 0)
       /\ act.id \in detailPage.skipped <=> act \notin Survivors
  /\ \A i \in 1..Len(detailPage.comparisonData) :
       \/ detailPage.comparisonData[i].isCurrentActivity
       \/ \E act \in Survivors : act.id = detailPage.comparisonData[i].id

\* C26 as stated: the comparison list that is shown was built from exactly the
\* cached activities of the period other than the subject, has every candidate
\* that survived once, none that was skipped, and the subject exactly once.
C26_SubjectOnce ==
  (detailPage.fn = "cohort" /\ detailPage.pc = "shown")
    => /\ CandidatesHandled
       /\ Cardinality(EntriesOf(detailPage.activity.id, TRUE)) = 1
       /\ EntriesOf(detailPage.activity.id, FALSE) = {}

\* C26 amended: the same, with the subject in the list exactly once when it
\* has a heart-rate stream and not at all when it has none.
C26_SubjectOnceIfEffort ==
  (detailPage.fn = "cohort" /\ detailPage.pc = "shown")
    => /\ CandidatesHandled
       /\ Cardinality(EntriesOf(detailPage.activity.id, TRUE))
            = (IF "heartrate" \in detailPage.activity.streams THEN 1 ELSE 0)
       /\ EntriesOf(detailPage.activity.id, FALSE) = {}

\* a candidate was skipped, a later one survived, and the subject, without a
\* heart-rate stream, is not in the list
C26_Witness ==
  /\ detailPage.fn = "cohort"
  /\ detailPage.pc = "shown"
  /\ "heartrate" \notin detailPage.activity.streams
  /\ Len(detailPage.filteredActivities) = 2
  /\ detailPage.skipped = {detailPage.filteredActivities[1].id}
  /\ task[CohortTask].pc = "idle"
  /\ Len(detailPage.comparisonData) = 1

\* C27: the athlete table never holds more than one record, and holds exactly
\* one once a getAthlete call has stored a fetched profile, whatever
\* getAthlete, the two athlete updates, logout and import do and however they
\* interleave.
C27_OneAthlete ==
  /\ Cardinality(athleteTbl) <= 1
  /\ (detailPage.fn = "athlete" /\ detailPage.fetched) => Cardinality(athleteTbl) = 1

\* C28: a detail stored with its streams is not replaced by a detail of the
\* same activity without streams: after every step in which the table still
\* holds a detail of that activity, that detail has streams.
C28_KeepsStreamsStep ==
  \A d \in detailsTbl :
    "streams" \in DOMAIN d
      => \A e \in detailsTbl' : e.id = d.id => "streams" \in DOMAIN e

C28_KeepsStreams == [][C28_KeepsStreamsStep]_vars

\* no call of the service is under way: no task is inside one and the
\* Settings page runs no export, import, logout or reset
Quiescent ==
  /\ \A t \in Tasks : task[t].pc \in {"idle", "done"}
  /\ settingsPage.pc \in {"idle", "export_done", "import_done", "loggedOut", "reset_done"}

\* C29: whenever no service operation is in progress, the in-memory copy of
\* the credentials is empty or is the record the store holds.
C29_MemoryMatchesStore ==
  Quiescent => (mem = Null \/ mem = First(settingsTbl))

\* the page was loaded by a load that is in the history
LoadedBefore(page) ==
  \E j \in 1..Len(log) : log[j][1] = "loaded" /\ log[j][3] = page

\* C30: the pages of the list are requested contiguously: a load-more asks
\* for page 1 or for the page after one that was loaded, so that no page is
\* skipped, and a load that failed leaves the current page number as it was.
C30_ContiguousStep ==
  Len(log') > Len(log)
    => LET e == log'[Len(log')]
       IN /\ (e[1] = "request" /\ e[2] = "more") => (e[3] = 1 \/ LoadedBefore(e[3] - 1))
          /\ e[1] = "failed" => ui'.currentPage = ui.currentPage

C30_Contiguous == [][C30_ContiguousStep]_vars

====
